---- MODULE Spec2Model ----
(***************************************************************************)
(* MindMapService.processMindMaps: the chunked, concurrency-limited batch  *)
(* pipeline (read rows, p-limit fan-out, p-retry around the generator,     *)
(* validation, store, checkpoint and final CSV writes).                    *)
(*                                                                         *)
(* Strings that the code inspects character by character (row fields) are  *)
(* tuples of one-character strings; messages and paths are plain strings.  *)
(* An optional value is a tuple of length 0 or 1.                          *)
(***************************************************************************)
EXTENDS Integers, Sequences, FiniteSets, TLC

\* ------------------------------------------------------------------ bounds
MaxRows == 2
MaxConc == 2
MaxBatch == 2
MaxRetries == 2

\* -------------------------------------------------------- program constants
DefaultRetries == 3

\* ------------------------------------------------------------------ helpers
Range(s) == {s[k] : k \in DOMAIN s}

Min(a, b) == IF a < b THEN a ELSE b

Last(s) == s[Len(s)]

\* Math.ceil(n / d) for n >= 0, d >= 1
Ceil(n, d) == (n + d - 1) \div d

\* ------------------------------------------------------------- input rows
Math == <<"M", "a">>
Algebra == <<"A", "l">>
Geometry == <<"G", "e">>
Blank == <<" ">>
Empty == <<>>
UnknownTopic == <<"U", "T">>
UnknownSubject == <<"U", "S">>

\* Rows as csvService.readInputCSV may hand them over: both fields, a field
\* that is the empty string, a field of white space only, a missing column.
ValidRows ==
    { [subject |-> Math, topic |-> Algebra],
      [subject |-> Math, topic |-> Geometry] }

InvalidRows ==
    { [subject |-> Math, topic |-> Empty],
      [subject |-> Math] }

BlankRows ==
    { [subject |-> Blank, topic |-> Algebra],
      [subject |-> Math, topic |-> Blank] }

\* row.topic || 'Unknown Topic'
TopicOf(row) ==
    IF "topic" \in DOMAIN row /\ row.topic # Empty THEN row.topic ELSE UnknownTopic

\* row.subject || 'Unknown Subject'
SubjectOf(row) ==
    IF "subject" \in DOMAIN row /\ row.subject # Empty THEN row.subject ELSE UnknownSubject

\* Ajv, CSVInputRowSchema: required subject and topic, each a string with
\* minLength 1 (the length of the string as it is, nothing is trimmed).
MinLengthOk(s) == Len(s) >= 1

ValidateCSVInputRow(row) ==
    /\ {"subject", "topic"} \subseteq DOMAIN row
    /\ MinLengthOk(row.subject)
    /\ MinLengthOk(row.topic)

\* ----------------------------------------------------------------- errors
NewError(class, message) == [class |-> class, message |-> message]

\* errors/error-types.ts
ExternalAPIError(message) == NewError("ExternalAPIError", message)
AppValidationError(message) == NewError("errors/ValidationError", message)
FileSystemError(message) == NewError("FileSystemError", message)
\* services/validation.service.ts
ValidationError(message) == NewError("validation.service/ValidationError", message)

\* ---------------------------------------------------------------- outcomes
Success(topic) == [topic |-> topic, status |-> "Success"]
Failure(topic, error) == [topic |-> topic, status |-> "Failure", error |-> error]

\* How an async call ends.
Resolved(value) == [kind |-> "resolved", value |-> value]
Rejected(error) == [kind |-> "rejected", error |-> error]

\* ---------------------------------------------------------------- mind maps
\* The document OpenAIService.generateMindMap builds; id stands for the
\* crypto.randomUUID() of the call (a value no other call produces).
NewMindMap(subject, topic, id) ==
    [ id |-> id, subject |-> subject, topic |-> topic,
      root |-> [id |-> <<id, "root">>, text |-> topic],
      createdAt |-> "iso" ]

\* A document that lacks its root: what a generator that does not validate
\* its own output may return.
RootlessMindMap(subject, topic, id) ==
    [id |-> id, subject |-> subject, topic |-> topic, createdAt |-> "iso"]

\* mutant: the document check accepts everything
MutValidateMindMap(mindMap) == TRUE

\* MindMapSchema: id, subject, topic, root {id, text}, createdAt required.
ValidateMindMap(mindMap) ==
    /\ {"id", "subject", "topic", "root", "createdAt"} \subseteq DOMAIN mindMap
    /\ {"id", "text"} \subseteq DOMAIN mindMap.root

\* ---------------------------------------------------------------- generator
\* The request to the API got no answer within the timeout of the client.
TimedOut == Rejected(ExternalAPIError("OpenAI API Error: Request timed out."))

\* OpenAIService.generateMindMap: a validated document, an ExternalAPIError
\* (the API call failed or timed out, or returned no content) or the
\* ValidationError of errors/error-types (the response is no usable JSON).
OpenAIOutcomes(subject, topic, id) ==
    { Resolved(NewMindMap(subject, topic, id)),
      TimedOut,
      Rejected(AppValidationError("No valid JSON structure found in OpenAI response")) }

\* Any other IMindMapGenerator: it may also return an unvalidated document,
\* throw a plain Error, with or without a message, or throw the
\* ValidationError of validation.service.
OtherOutcomes(subject, topic, id) ==
    { Resolved(NewMindMap(subject, topic, id)),
      Resolved(RootlessMindMap(subject, topic, id)),
      Rejected(NewError("Error", "Service unavailable")),
      Rejected(NewError("Error", "Temporary error")),
      Rejected(NewError("Error", "")),
      Rejected(ValidationError("Invalid mind map structure")) }

GenerateMindMap(generator, subject, topic, id) ==
    IF generator = "OpenAIService"
    THEN OpenAIOutcomes(subject, topic, id)
    ELSE OtherOutcomes(subject, topic, id)

\* ------------------------------------------------------------------ p-retry
\* retryOptions: a record with retries and, when the caller gave one, shouldRetry.
\* The constructor's default value of the parameter:
DefaultRetryOptions == [retries |-> DefaultRetries, shouldRetry |-> "notValidationError"]

\* (error) => !(error instanceof ValidationError), with ValidationError the
\* class imported from ./validation.service.js
NotValidationError(error) == error.class # "validation.service/ValidationError"

\* options.shouldRetry ??= () => true
ShouldRetry(options, error) ==
    IF "shouldRetry" \in DOMAIN options THEN NotValidationError(error) ELSE TRUE

\* mutant: one retry fewer than the budget
MutRetriesLeft(options, attemptNumber) == attemptNumber < options.retries

\* operation.retry(error): a backoff timeout is left for the attempt that failed
RetriesLeft(options, attemptNumber) == attemptNumber <= options.retries

\* operation.mainError(): the error whose message occurred most often, the
\* latest one on a tie.
CountUpTo(errs, k) == Cardinality({j \in 1..k : errs[j].message = errs[k].message})

RECURSIVE MainErrorScan(_, _, _, _)
MainErrorScan(errs, k, main, mainCount) ==
    IF k > Len(errs) THEN main
    ELSE IF CountUpTo(errs, k) >= mainCount
         THEN MainErrorScan(errs, k + 1, k, CountUpTo(errs, k))
         ELSE MainErrorScan(errs, k + 1, main, mainCount)

MainError(errs) == errs[MainErrorScan(errs, 1, 0, 0)]

\* What pRetry does with the error of attempt attemptNumber, errs being the
\* errors of the earlier attempts: <<>> when it schedules another attempt,
\* <<e>> when it rejects with e.
PRetryOnError(options, attemptNumber, errs, error) ==
    IF ~ShouldRetry(options, error) THEN <<error>>
    ELSE IF RetriesLeft(options, attemptNumber) THEN <<>>
    ELSE <<MainError(Append(errs, error))>>

\* ------------------------------------------------------------------ p-limit
\* mutant: off by one in the slot check
MutCanResume(active, concurrency) == active <= concurrency

\* resumeNext(): start the head of the queue when a slot is free.
CanResume(active, concurrency) == active < concurrency

\* mutant: the queue is served from its tail
MutResumeNextLast(lim, concurrency) ==
    IF CanResume(lim.activeCount, concurrency) /\ lim.queue # <<>>
    THEN [ activeCount |-> lim.activeCount + 1,
           queue |-> SubSeq(lim.queue, 1, Len(lim.queue) - 1),
           resumed |-> lim.resumed \cup {lim.queue[Len(lim.queue)]} ]
    ELSE lim

ResumeNext(lim, concurrency) ==
    IF CanResume(lim.activeCount, concurrency) /\ lim.queue # <<>>
    THEN [ activeCount |-> lim.activeCount + 1,
           queue |-> Tail(lim.queue),
           resumed |-> lim.resumed \cup {Head(lim.queue)} ]
    ELSE lim

\* next(): activeCount--, resumeNext()
LimitNext(lim, concurrency) ==
    ResumeNext([lim EXCEPT !.activeCount = @ - 1], concurrency)

\* limit(fn) called for every row of a batch in turn: each call enqueues and
\* schedules one resumeNext().
RECURSIVE ResumeTimes(_, _, _)
ResumeTimes(n, lim, concurrency) ==
    IF n = 0 THEN lim ELSE ResumeTimes(n - 1, ResumeNext(lim, concurrency), concurrency)

\* ------------------------------------------------------------------- chunks
\* mutant: one chunk more than full chunks, whatever the remainder
MutNumChunksPlusOne(n, size) == n \div size + 1

\* mutant: Math.floor instead of Math.ceil
MutNumChunks(n, size) == n \div size

\* mutant: a chunk starts on the last row of the chunk before it
MutChunkFirst(i, size) == IF i = 0 THEN 1 ELSE i * size

\* mutant: the batch is put in front of the results so far
MutAppendBatch(all, batch) == batch \o all

\* chunks = Array.from({length: ceil(N / batchSize)}).map((_, i) =>
\*            inputRows.slice(i * batchSize, (i + 1) * batchSize))
NumChunks(n, size) == Ceil(n, size)

ChunkFirst(i, size) == i * size + 1

ChunkLast(i, size, n) == Min((i + 1) * size, n)

\* mutant: slice without its end, the chunk runs to the last row
MutChunkToEnd(i, size, n) ==
    [k \in 1..(n - ChunkFirst(i, size) + 1) |-> ChunkFirst(i, size) + k - 1]

\* the (1-based) row numbers of chunk i (0-based), in order
Chunk(i, size, n) ==
    [k \in 1..(ChunkLast(i, size, n) - ChunkFirst(i, size) + 1) |-> ChunkFirst(i, size) + k - 1]

\* allResults = [...allResults, ...batchResults]
AppendBatch(all, batch) == all \o batch

\* if (batch.length > 0): the checkpoint is written for a chunk that has rows
WritesCheckpoint(batch) == Len(batch) > 0

\* `/tmp/output_results.csv.partial.${processedRowCount}`
PartialFilePath(outputPath, processedCount) ==
    <<"/tmp/output_results.csv", "partial", processedCount>>

FinalFilePath(outputPath) == <<outputPath>>

\* ---------------------------------------------------------------- processRow
\* mutant: the catch block rethrows
MutProcessRowCatch(topic, error) == Rejected(error)

\* catch (validationError) of the input check
InvalidRowResult(row) ==
    Resolved(Failure(TopicOf(row), "Invalid CSV input row structure"))

\* mutant: the message is passed on as it is, empty or not
MutProcessRowCatchNoFallback(topic, error) == Resolved(Failure(topic, error.message))

\* error.message || 'Unknown processing error for this topic'
MessageOrFallback(message) ==
    IF message # "" THEN message ELSE "Unknown processing error for this topic"

\* catch (err) around generation, validation and storage
ProcessRowCatch(topic, error) == Resolved(Failure(topic, MessageOrFallback(error.message)))

\* return { topic, status: 'Success' }
ProcessRowSuccess(topic) == Resolved(Success(topic))

\* ------------------------------------------------------------------- storage
\* mutant: every white space character becomes "_", runs are not collapsed
RECURSIVE MutReplaceEachWhitespace(_)
MutReplaceEachWhitespace(s) ==
    IF s = <<>> THEN <<>>
    ELSE <<IF Head(s) = " " THEN "_" ELSE Head(s)>> \o MutReplaceEachWhitespace(Tail(s))

\* mutant: the key leaves the id out
MutFileNameNoId(mindMap) == mindMap.subject \o <<"_">> \o mindMap.topic \o <<".json">>

\* mindMap.subject.replace(/\s+/g, '_'): every run of white space becomes "_"
RECURSIVE ReplaceWhitespace(_)
ReplaceWhitespace(s) ==
    IF s = <<>> THEN <<>>
    ELSE IF Head(s) = " "
         THEN IF Len(s) > 1 /\ s[2] = " "
              THEN ReplaceWhitespace(Tail(s))
              ELSE <<"_">> \o ReplaceWhitespace(Tail(s))
         ELSE <<Head(s)>> \o ReplaceWhitespace(Tail(s))

\* `${subject}_${topic}_${id}.json`
FileName(mindMap) ==
    ReplaceWhitespace(mindMap.subject) \o <<"_">> \o ReplaceWhitespace(mindMap.topic)
        \o <<"_", mindMap.id, ".json">>

\* What csvService rejects with: FileSystemError(message, operation, path).
ReadError == FileSystemError("File system operation read failed for path: input.csv")

FinalWriteError == FileSystemError("File system operation write failed for path: output.csv")

StoreOutcomes(mindMap) ==
    { Resolved(FileName(mindMap)),
      Rejected(NewError("Error", "ENOSPC: no space left on device")) }

\* -------------------------------------------------------------------- state
VARIABLES
    inputRows,          \* what csvService.readInputCSV resolves with
    maxConcurrent,      \* parameters of processMindMaps
    batchSize,
    outputCsvPath,
    retryOptions,       \* constructor arguments of MindMapService
    mindMapGenerator,
    pc,                 \* where processMindMaps is
    index,              \* index of the chunk being processed
    allResults,
    processedRowCount,
    queue,              \* p-limit: rows waiting for a slot
    activeCount,        \* p-limit: slots taken
    rowState,           \* per row: where its limit(() => processRow(row)) is
    results,            \* per row: how its promise settled, <<>> while pending
    attemptNumber,      \* per row: generateMindMap calls made by pRetry
    errors,             \* per row: the errors of the failed attempts
    mindMap,            \* per row: the document pRetry resolved with
    processRowCalls,    \* per row: times processRow was entered
    storeLog,           \* per row: the storeMindMap calls and how they ended
    writeCalls,         \* the writeOutputCSV calls, in order
    returned,           \* <<report>> once processMindMaps has returned
    thrown              \* <<error>> once processMindMaps has thrown

\* The blob store and its clients.
VARIABLES
    backend,            \* which IStorageService is wired: "local" or "gcs"
    dir,                \* the stored files, in the order a listing gives them
    calls,              \* the storeMindMap calls: document, state, result
    pages,              \* the getAllMindMaps calls of one client, in order
    workload            \* how many store calls and page requests the clients make

\* The HTTP server: plugins/config.ts, plugins/api-auth.ts, routes/mindmaps.ts.
VARIABLES
    env,                    \* process.env as far as the plugins read it
    server,                 \* "starting", "ready" or "failed" (a plugin threw)
    fastifyConfig,          \* fastify.config once configPlugin has decorated it
    exchanges,              \* the requests received, each with its reply
    processMindMapsCalls    \* the calls the routes made to processMindMaps

\* OpenAIService.generateMindMap, one call.
VARIABLES
    generation,     \* the call: where it is, what the API answered, how it ended
    uuids           \* crypto.randomUUID() calls made so far

\* CSVService.writeOutputCSV and ValidationService.validateCSVInputRowOrThrow.
VARIABLES
    csvCalls        \* the calls made, in order, each with what it did

\* Several processMindMaps runs of one process, as concurrent requests start them.
VARIABLES
    runs            \* per run: its arguments, where its loop is, what it wrote

config == <<inputRows, maxConcurrent, batchSize, outputCsvPath, retryOptions, mindMapGenerator>>
pipeline == <<inputRows, maxConcurrent, batchSize, outputCsvPath, retryOptions, mindMapGenerator,
              pc, index, allResults, processedRowCount, queue, activeCount, rowState,
              results, attemptNumber, errors, mindMap, processRowCalls, storeLog,
              writeCalls, returned, thrown>>
storage == <<backend, dir, calls, pages, workload>>
http == <<env, server, fastifyConfig, exchanges, processMindMapsCalls>>
adapter == <<generation, uuids>>
csv == <<csvCalls>>
concurrent == <<runs>>
services == <<http, adapter, csv, concurrent>>
vars == <<pipeline, storage, services>>

Rows == DOMAIN inputRows

SeqsUpTo(S, n) == UNION {[1..k -> S] : k \in 0..n}

CustomRetryOptions ==
    {[retries |-> r] : r \in 0..MaxRetries}
        \cup {[retries |-> r, shouldRetry |-> "notValidationError"] : r \in 0..MaxRetries}

InitRun(rows, conc, size, options, generator) ==
    /\ inputRows = rows
    /\ maxConcurrent = conc
    /\ batchSize = size
    /\ outputCsvPath = "output.csv"
    /\ retryOptions = options
    /\ mindMapGenerator = generator
    /\ pc = "reading"
    /\ index = 0
    /\ allResults = <<>>
    /\ processedRowCount = 0
    /\ queue = <<>>
    /\ activeCount = 0
    /\ rowState = [i \in DOMAIN rows |-> "idle"]
    /\ results = [i \in DOMAIN rows |-> <<>>]
    /\ attemptNumber = [i \in DOMAIN rows |-> 0]
    /\ errors = [i \in DOMAIN rows |-> <<>>]
    /\ mindMap = [i \in DOMAIN rows |-> <<>>]
    /\ processRowCalls = [i \in DOMAIN rows |-> 0]
    /\ storeLog = [i \in DOMAIN rows |-> <<>>]
    /\ writeCalls = <<>>
    /\ returned = <<>>
    /\ thrown = <<>>

\* The topics of the rows of a batch, by place in the file.
Topics == <<Algebra, Geometry, <<"T", "r">>, <<"S", "e">>>>

\* The row at place i of a batch: a valid row with the topic of its place, or
\* a row whose topic is empty.
BatchRowsAt(i) ==
    { [subject |-> Math, topic |-> Topics[((i - 1) % Len(Topics)) + 1]],
      [subject |-> Math, topic |-> Empty] }

BatchInputs ==
    {rows \in SeqsUpTo(UNION {BatchRowsAt(i) : i \in 1..MaxRows}, MaxRows) :
        \A i \in DOMAIN rows : rows[i] \in BatchRowsAt(i)}

\* A batch of up to MaxRows rows through the wired generator.
InitBatch ==
    \E rows \in BatchInputs, conc \in 1..MaxConc, size \in 1..MaxBatch :
        InitRun(rows, conc, size, [retries |-> 1, shouldRetry |-> "notValidationError"],
                "OpenAIService")

\* One row, any retry options, either kind of generator.
InitRow ==
    \E row \in ValidRows \cup InvalidRows \cup BlankRows,
       options \in {DefaultRetryOptions} \cup CustomRetryOptions,
       generator \in {"OpenAIService", "other"} :
        InitRun(<<row>>, 1, 1, options, generator)

\* No storage client is at work during a processMindMaps run.
StorageIdle ==
    /\ backend = "local"
    /\ dir = <<>>
    /\ calls = <<>>
    /\ pages = <<>>
    /\ workload = [stores |-> 0, pages |-> 0]

\* The HTTP server is not part of a processMindMaps run.
HttpIdle ==
    /\ env = <<>>
    /\ server = "starting"
    /\ fastifyConfig = <<>>
    /\ exchanges = <<>>
    /\ processMindMapsCalls = <<>>

\* No generateMindMap call of the adapter is followed step by step.
AdapterIdle ==
    /\ generation = [state |-> "idle"]
    /\ uuids = 0

\* No CSV file is written and no row checked outside a run.
CsvIdle == csvCalls = <<>>

\* No second run is under way.
RunsIdle == runs = <<>>

ServicesIdle == HttpIdle /\ AdapterIdle /\ CsvIdle /\ RunsIdle

Init == (InitBatch \/ InitRow) /\ StorageIdle /\ ServicesIdle

\* ------------------------------------------------------------------ actions
\* The for loop reaching chunk k: every row of the chunk goes through
\* limit(...); after the last chunk, the final write is called.
EnterLoop(k) ==
    IF k < NumChunks(Len(inputRows), batchSize)
    THEN LET batch == Chunk(k, batchSize, Len(inputRows))
             lim == ResumeTimes(Len(batch),
                        [activeCount |-> activeCount, queue |-> queue \o batch, resumed |-> {}],
                        maxConcurrent)
         IN /\ pc' = "batch"
            /\ index' = k
            /\ queue' = lim.queue
            /\ activeCount' = lim.activeCount
            /\ rowState' = [j \in Rows |->
                   IF j \in lim.resumed THEN "dequeued"
                   ELSE IF j \in Range(batch) THEN "queued" ELSE rowState[j]]
            /\ results' = [j \in Rows |-> IF j \in Range(batch) THEN <<>> ELSE results[j]]
    ELSE /\ pc' = "finalWrite"
         /\ UNCHANGED <<index, queue, activeCount, rowState, results>>

\* mutant: the row settles but next() is not run, the slot stays taken
MutFinishKeepsSlot(i, settlement) ==
    /\ results' = [results EXCEPT ![i] = <<settlement>>]
    /\ rowState' = [rowState EXCEPT ![i] = "done"]
    /\ UNCHANGED <<queue, activeCount, pc, thrown>>

\* The promise of row i settles: Promise.all sees it, p-limit runs next().
Finish(i, settlement) ==
    LET lim == LimitNext([activeCount |-> activeCount, queue |-> queue, resumed |-> {}],
                         maxConcurrent)
    IN /\ results' = [results EXCEPT ![i] = <<settlement>>]
       /\ queue' = lim.queue
       /\ activeCount' = lim.activeCount
       /\ rowState' = [j \in Rows |->
              IF j = i THEN "done"
              ELSE IF j \in lim.resumed THEN "dequeued" ELSE rowState[j]]
       /\ IF settlement.kind = "rejected" /\ pc = "batch"
          THEN pc' = "thrown" /\ thrown' = <<settlement.error>>
          ELSE UNCHANGED <<pc, thrown>>

ReadInputCSVResolve ==
    /\ pc = "reading"
    /\ EnterLoop(0)
    /\ UNCHANGED <<config, storage, services, allResults, processedRowCount, attemptNumber, errors, mindMap,
                   processRowCalls, storeLog, writeCalls, returned, thrown>>

\* mutant: the read error is recorded but the loop is entered all the same
MutReadInputCSVReject ==
    /\ pc = "reading"
    /\ thrown' = <<ReadError>>
    /\ EnterLoop(0)
    /\ UNCHANGED <<config, storage, services, allResults, processedRowCount, attemptNumber, errors, mindMap,
                   processRowCalls, storeLog, writeCalls, returned>>

ReadInputCSVReject ==
    /\ pc = "reading"
    /\ pc' = "thrown"
    /\ thrown' = <<ReadError>>
    /\ UNCHANGED <<config, storage, services, index, allResults, processedRowCount, queue, activeCount, rowState,
                   results, attemptNumber, errors, mindMap, processRowCalls, storeLog,
                   writeCalls, returned>>

\* processRow(row) up to its first await: the input check, then attempt 1.
Run(i) ==
    /\ rowState[i] = "dequeued"
    /\ processRowCalls' = [processRowCalls EXCEPT ![i] = @ + 1]
    /\ IF ValidateCSVInputRow(inputRows[i])
       THEN /\ rowState' = [rowState EXCEPT ![i] = "generating"]
            /\ attemptNumber' = [attemptNumber EXCEPT ![i] = 1]
            /\ errors' = [errors EXCEPT ![i] = <<>>]
            /\ mindMap' = [mindMap EXCEPT ![i] = <<>>]
            /\ UNCHANGED <<results, queue, activeCount, pc, thrown>>
       ELSE /\ Finish(i, InvalidRowResult(inputRows[i]))
            /\ UNCHANGED <<attemptNumber, errors, mindMap>>
    /\ UNCHANGED <<config, storage, services, index, allResults, processedRowCount, storeLog, writeCalls, returned>>

\* An attempt resolves: validateMindMapOrThrow, then storeMindMap is called.
GenerateResolve(i) ==
    /\ rowState[i] = "generating"
    /\ \E o \in GenerateMindMap(mindMapGenerator, SubjectOf(inputRows[i]),
                                TopicOf(inputRows[i]), <<i, attemptNumber[i]>>) :
        /\ o.kind = "resolved"
        /\ mindMap' = [mindMap EXCEPT ![i] = <<o.value>>]
        /\ IF ValidateMindMap(o.value)
           THEN /\ rowState' = [rowState EXCEPT ![i] = "storing"]
                /\ storeLog' = [storeLog EXCEPT ![i] = Append(@, [mindMap |-> o.value, outcome |-> <<>>])]
                /\ UNCHANGED <<results, queue, activeCount, pc, thrown>>
           ELSE /\ Finish(i, ProcessRowCatch(TopicOf(inputRows[i]),
                                             ValidationError("Invalid mind map structure")))
                /\ UNCHANGED storeLog
    /\ UNCHANGED <<config, storage, services, index, allResults, processedRowCount, attemptNumber, errors,
                   processRowCalls, writeCalls, returned>>

\* An attempt rejects with o: pRetry schedules the next attempt or rejects.
GenerateRejectWith(i, o) ==
    /\ rowState[i] = "generating"
    /\ o.kind = "rejected"
    /\ errors' = [errors EXCEPT ![i] = Append(@, o.error)]
    /\ LET final == PRetryOnError(retryOptions, attemptNumber[i], errors[i], o.error)
       IN IF final = <<>>
          THEN /\ rowState' = [rowState EXCEPT ![i] = "backoff"]
               /\ UNCHANGED <<results, queue, activeCount, pc, thrown>>
          ELSE Finish(i, ProcessRowCatch(TopicOf(inputRows[i]), final[1]))
    /\ UNCHANGED <<config, storage, services, index, allResults, processedRowCount, attemptNumber, mindMap,
                   processRowCalls, storeLog, writeCalls, returned>>

GenerateReject(i) ==
    \E o \in GenerateMindMap(mindMapGenerator, SubjectOf(inputRows[i]),
                             TopicOf(inputRows[i]), <<i, attemptNumber[i]>>) :
        GenerateRejectWith(i, o)

\* mutant: the request has no timeout
MutGenerateTimeoutOff(i) ==
    /\ FALSE
    /\ UNCHANGED vars

\* The timeout of the API request of OpenAIService runs out while the
\* attempt of row i is in flight.
GenerateTimeout(i) ==
    /\ i \in Rows
    /\ mindMapGenerator = "OpenAIService"
    /\ GenerateRejectWith(i, TimedOut)

\* mutant: the next attempt is made while the last one is still in flight
MutBackoffElapsedEarly(i) ==
    /\ rowState[i] = "generating"
    /\ RetriesLeft(retryOptions, attemptNumber[i])
    /\ attemptNumber' = [attemptNumber EXCEPT ![i] = @ + 1]
    /\ UNCHANGED <<config, storage, services, pc, index, allResults, processedRowCount, queue, activeCount,
                   rowState, results, errors, mindMap, processRowCalls, storeLog, writeCalls,
                   returned, thrown>>

\* The backoff delay elapses: the next attempt calls generateMindMap.
BackoffElapsed(i) ==
    /\ rowState[i] = "backoff"
    /\ rowState' = [rowState EXCEPT ![i] = "generating"]
    /\ attemptNumber' = [attemptNumber EXCEPT ![i] = @ + 1]
    /\ UNCHANGED <<config, storage, services, pc, index, allResults, processedRowCount, queue, activeCount,
                   results, errors, mindMap, processRowCalls, storeLog, writeCalls,
                   returned, thrown>>

StoreSettle(i, o) ==
    /\ rowState[i] = "storing"
    /\ storeLog' = [storeLog EXCEPT ![i] = [@ EXCEPT ![Len(@)].outcome = <<o>>]]
    /\ IF o.kind = "resolved"
       THEN Finish(i, ProcessRowSuccess(TopicOf(inputRows[i])))
       ELSE Finish(i, ProcessRowCatch(TopicOf(inputRows[i]), o.error))
    /\ UNCHANGED <<config, storage, services, index, allResults, processedRowCount, attemptNumber, errors,
                   mindMap, processRowCalls, writeCalls, returned>>

StoreResolve(i) ==
    /\ rowState[i] = "storing"
    /\ \E o \in StoreOutcomes(mindMap[i][1]) : o.kind = "resolved" /\ StoreSettle(i, o)

StoreReject(i) ==
    /\ rowState[i] = "storing"
    /\ \E o \in StoreOutcomes(mindMap[i][1]) : o.kind = "rejected" /\ StoreSettle(i, o)

\* Promise.all resolves: the batch is appended and its checkpoint write called.
BatchResults(batch) == [k \in DOMAIN batch |-> results[batch[k]][1].value]

BatchComplete ==
    /\ pc = "batch"
    /\ LET batch == Chunk(index, batchSize, Len(inputRows))
       IN /\ \A k \in DOMAIN batch : results[batch[k]] # <<>>
          /\ allResults' = AppendBatch(allResults, BatchResults(batch))
          /\ processedRowCount' = processedRowCount + Len(batch)
          /\ IF WritesCheckpoint(batch)
             THEN /\ pc' = "partialWrite"
                  /\ UNCHANGED <<index, queue, activeCount, rowState, results>>
             ELSE EnterLoop(index + 1)
    /\ UNCHANGED <<config, storage, services, attemptNumber, errors, mindMap, processRowCalls, storeLog,
                   writeCalls, returned, thrown>>

WriteCall(path, rows, ok) == [path |-> path, rows |-> rows, ok |-> ok]

\* The checkpoint write ends, well or not: the loop goes on either way.
PartialWriteSettle(ok) ==
    /\ pc = "partialWrite"
    /\ writeCalls' = Append(writeCalls,
           WriteCall(PartialFilePath(outputCsvPath, processedRowCount), allResults, ok))
    /\ EnterLoop(index + 1)
    /\ UNCHANGED <<config, storage, services, allResults, processedRowCount, attemptNumber, errors, mindMap,
                   processRowCalls, storeLog, returned, thrown>>

\* mutant: a failed checkpoint write reaches the outer catch
MutPartialWriteReject ==
    /\ pc = "partialWrite"
    /\ writeCalls' = Append(writeCalls,
           WriteCall(PartialFilePath(outputCsvPath, processedRowCount), allResults, FALSE))
    /\ pc' = "thrown"
    /\ thrown' = <<FileSystemError("File system operation write failed for path: partial")>>
    /\ UNCHANGED <<config, storage, services, index, allResults, processedRowCount, queue, activeCount, rowState,
                   results, attemptNumber, errors, mindMap, processRowCalls, storeLog, returned>>

PartialWriteResolve == PartialWriteSettle(TRUE)

PartialWriteReject == PartialWriteSettle(FALSE)

\* mutant: the Report returned is not the one accumulated
MutFinalWriteResolve ==
    /\ pc = "finalWrite"
    /\ writeCalls' = Append(writeCalls, WriteCall(FinalFilePath(outputCsvPath), allResults, TRUE))
    /\ pc' = "returned"
    /\ returned' = <<SubSeq(allResults, 1, Len(allResults) - 1)>>
    /\ UNCHANGED <<config, storage, services, index, allResults, processedRowCount, queue, activeCount, rowState,
                   results, attemptNumber, errors, mindMap, processRowCalls, storeLog, thrown>>

\* mutant: a failed final write is swallowed like a checkpoint's
MutFinalWriteReject ==
    /\ pc = "finalWrite"
    /\ writeCalls' = Append(writeCalls, WriteCall(FinalFilePath(outputCsvPath), allResults, FALSE))
    /\ pc' = "returned"
    /\ returned' = <<allResults>>
    /\ UNCHANGED <<config, storage, services, index, allResults, processedRowCount, queue, activeCount, rowState,
                   results, attemptNumber, errors, mindMap, processRowCalls, storeLog, thrown>>

FinalWriteResolve ==
    /\ pc = "finalWrite"
    /\ writeCalls' = Append(writeCalls, WriteCall(FinalFilePath(outputCsvPath), allResults, TRUE))
    /\ pc' = "returned"
    /\ returned' = <<allResults>>
    /\ UNCHANGED <<config, storage, services, index, allResults, processedRowCount, queue, activeCount, rowState,
                   results, attemptNumber, errors, mindMap, processRowCalls, storeLog, thrown>>

FinalWriteReject ==
    /\ pc = "finalWrite"
    /\ writeCalls' = Append(writeCalls, WriteCall(FinalFilePath(outputCsvPath), allResults, FALSE))
    /\ pc' = "thrown"
    /\ thrown' = <<FinalWriteError>>
    /\ UNCHANGED <<config, storage, services, index, allResults, processedRowCount, queue, activeCount, rowState,
                   results, attemptNumber, errors, mindMap, processRowCalls, storeLog, returned>>

Next ==
    \/ ReadInputCSVResolve
    \/ ReadInputCSVReject
    \/ \E i \in Rows : Run(i)
    \/ \E i \in Rows : GenerateResolve(i)
    \/ \E i \in Rows : GenerateReject(i)
    \/ \E i \in Rows : BackoffElapsed(i)
    \/ \E i \in Rows : StoreResolve(i)
    \/ \E i \in Rows : StoreReject(i)
    \/ BatchComplete
    \/ PartialWriteResolve
    \/ PartialWriteReject
    \/ FinalWriteResolve
    \/ FinalWriteReject

Spec == Init /\ [][Next]_vars

\* The service as servicesPlugin wires it, with OpenAIService as generator,
\* and the timer of the API request: an attempt in flight does not outlast it.
LiveInit == Init /\ mindMapGenerator = "OpenAIService"

LiveSpec ==
    /\ LiveInit
    /\ [][Next]_vars
    /\ \A i \in 1..MaxRows : WF_vars(GenerateTimeout(i))

\* What the event loop and the collaborators do for row i: the microtask that
\* enters processRow, the generator call settling, the backoff timer, the
\* store call settling.
RowStep(i) ==
    /\ i \in Rows
    /\ \/ Run(i)
       \/ GenerateResolve(i)
       \/ GenerateReject(i)
       \/ BackoffElapsed(i)
       \/ StoreResolve(i)
       \/ StoreReject(i)

\* The steps of processMindMaps itself: the read settling, Promise.all
\* resolving, a CSV write settling.
LoopStep ==
    \/ ReadInputCSVResolve
    \/ ReadInputCSVReject
    \/ BatchComplete
    \/ PartialWriteResolve
    \/ PartialWriteReject
    \/ FinalWriteResolve
    \/ FinalWriteReject

\* Every call that is pending settles and every scheduled callback runs.
FairSpec ==
    /\ Init
    /\ [][Next]_vars
    /\ WF_vars(LoopStep)
    /\ \A i \in 1..MaxRows : WF_vars(RowStep(i))

\* =============================================================== blob store
\* Bounds of the storage specification.
MaxFiles == 2

MaxStoreCalls == 2

MaxLimit == 2

MaxPages == 4

\* ------------------------------------------------------------ stored content
\* JSON.stringify(mindMap, null, 2): the text of a file or object
Stringify(doc) == [kind |-> "json", value |-> doc]

\* JSON.parse(content): <<value>>, or <<>> when it throws
Parse(content) == IF content.kind = "json" THEN <<content.value>> ELSE <<>>

\* Text that is no JSON (a truncated or foreign file).
Garbage == [kind |-> "garbage"]

\* A file whose read (readFile, download) rejects.
Unreadable == [kind |-> "unreadable"]

\* file.endsWith('.json')
EndsWithJson(name) == name # <<>> /\ Last(name) = ".json"

File(name, content) == [name |-> name, content |-> content]

\* ---------------------------------------------------------------- documents
SpacedMath == <<"M", " ", " ", "a">>

StoredMindMap(subject, topic, id) == NewMindMap(subject, topic, id)

\* The documents the clients store: the same subject, with a run of white
\* space in it, the same topic and distinct ids.
StoreDocs ==
    { StoredMindMap(SpacedMath, Algebra, "1"),
      StoredMindMap(SpacedMath, Algebra, "2") }

\* What the store may hold before any call of the run, in listing order: two
\* documents, a document without root, a file that is no JSON, a file that
\* cannot be read and a file that is no .json file.
InitialFiles ==
    << File(FileName(StoredMindMap(Math, Geometry, "3")), Stringify(StoredMindMap(Math, Geometry, "3"))),
       File(<<"o", "l", "d", ".json">>, Stringify(RootlessMindMap(Math, Algebra, "0"))),
       File(<<"b", "a", "d", ".json">>, Garbage),
       File(FileName(StoredMindMap(SpacedMath, Algebra, "1")),
            Stringify(StoredMindMap(SpacedMath, Algebra, "1"))),
       File(<<"l", "o", "c", "k", ".json">>, Unreadable),
       File(<<"o", "u", "t", ".csv">>, Garbage) >>

\* the files of listing whose places are in keep, in listing order
RECURSIVE Pick(_, _, _)
Pick(listing, keep, k) ==
    IF k > Len(listing) THEN <<>>
    ELSE (IF k \in keep THEN <<listing[k]>> ELSE <<>>) \o Pick(listing, keep, k + 1)

InitialListings ==
    {Pick(InitialFiles, keep, 1) :
        keep \in {K \in SUBSET DOMAIN InitialFiles : Cardinality(K) <= MaxFiles}}

\* ------------------------------------------------------------------- tokens
DigitChars == <<"0", "1", "2", "3", "4", "5", "6", "7", "8", "9">>

IsDigit(c) == \E d \in 1..10 : DigitChars[d] = c

DigitValue(c) == (CHOOSE d \in 1..10 : DigitChars[d] = c) - 1

\* String(n) for n >= 0
RECURSIVE StringOf(_)
StringOf(n) ==
    IF n < 10 THEN <<DigitChars[n + 1]>>
    ELSE StringOf(n \div 10) \o <<DigitChars[(n % 10) + 1]>>

\* parseInt(s, 10): leading white space, a sign, then the longest run of
\* digits; <<>> stands for NaN.
RECURSIVE ParseDigits(_, _, _)
ParseDigits(s, acc, seen) ==
    IF s # <<>> /\ IsDigit(Head(s))
    THEN ParseDigits(Tail(s), acc * 10 + DigitValue(Head(s)), TRUE)
    ELSE IF seen THEN <<acc>> ELSE <<>>

RECURSIVE ParseInt(_)
ParseInt(s) ==
    IF s # <<>> /\ Head(s) = " " THEN ParseInt(Tail(s))
    ELSE IF s # <<>> /\ Head(s) = "-"
         THEN LET r == ParseDigits(Tail(s), 0, FALSE)
              IN IF r = <<>> THEN <<>> ELSE <<0 - r[1]>>
         ELSE IF s # <<>> /\ Head(s) = "+"
              THEN ParseDigits(Tail(s), 0, FALSE)
              ELSE ParseDigits(s, 0, FALSE)

\* A page token travels as <<>> (none given) or <<text>>.
NoToken == <<>>

\* mutant: the token is ignored, every request starts at 0
MutOffsetOfZero(pageToken) == 0

\* if (pageToken) { parsedOffset = parseInt(pageToken, 10); ... }
OffsetOf(pageToken) ==
    IF pageToken # NoToken /\ pageToken[1] # <<>>
    THEN LET parsedOffset == ParseInt(pageToken[1])
         IN IF parsedOffset # <<>> /\ parsedOffset[1] >= 0 THEN parsedOffset[1] ELSE 0
    ELSE 0

\* ------------------------------------------------------------------ listing
IsJsonFile(file) == EndsWithJson(file.name)

\* array.slice(start, end), indices from 0
Slice(s, start, end) == SubSeq(s, start + 1, Min(end, Len(s)))

\* LocalStorageService, one file of the page: readFile, JSON.parse, push; the
\* catch only warns. <<>> when the file is skipped.
LocalItem(file) ==
    IF file.content = Unreadable THEN <<>> ELSE Parse(file.content)

\* StorageService, one object of the page: download, JSON.parse,
\* validateMindMapOrThrow; a failure of any of them gives a 'rejected' record
\* that the final forEach leaves out.
GcsItem(file) ==
    IF file.content = Unreadable THEN <<>>
    ELSE IF Parse(file.content) = <<>> THEN <<>>
    ELSE IF ValidateMindMap(Parse(file.content)[1]) THEN Parse(file.content) ELSE <<>>

Item(be, file) == IF be = "local" THEN LocalItem(file) ELSE GcsItem(file)

\* the for loop (local) or Promise.allSettled, which keeps the order (gcs)
RECURSIVE ReadItems(_, _)
ReadItems(be, files) ==
    IF files = <<>> THEN <<>>
    ELSE Item(be, Head(files)) \o ReadItems(be, Tail(files))

Response(mindMaps, total, nextPageToken) ==
    [mindMaps |-> mindMaps, total |-> total, nextPageToken |-> nextPageToken]

\* mutant: a page that ends at the total still gets a token
MutLocalGetAllMindMapsInclusive(directory, pageToken, limit) ==
    LET offset == OffsetOf(pageToken)
        files == SelectSeq(directory, IsJsonFile)
        total == Len(files)
        currentOffset == Min(offset, total)
        paginatedFiles == Slice(files, currentOffset, currentOffset + limit)
        nextOffset == currentOffset + Len(paginatedFiles)
    IN Response(ReadItems("local", paginatedFiles), <<total>>,
                IF nextOffset <= total THEN <<StringOf(nextOffset)>> ELSE NoToken)

LocalGetAllMindMaps(directory, pageToken, limit) ==
    LET offset == OffsetOf(pageToken)
        files == SelectSeq(directory, IsJsonFile)
        total == Len(files)
        currentOffset == Min(offset, total)
        paginatedFiles == Slice(files, currentOffset, currentOffset + limit)
        nextOffset == currentOffset + Len(paginatedFiles)
    IN Response(ReadItems("local", paginatedFiles), <<total>>,
                IF nextOffset < total THEN <<StringOf(nextOffset)>> ELSE NoToken)

\* bucket.getFiles({maxResults, pageToken, autoPaginate: false}): one page of
\* the objects and, when objects remain, the query of the next page. The
\* provider's token is written as the position the next page starts at.
GcsGetFiles(directory, pageToken, maxResults) ==
    LET start == OffsetOf(pageToken)
        files == Slice(directory, start, start + maxResults)
    IN [ files |-> files,
         nextQuery |-> IF start + Len(files) < Len(directory)
                       THEN <<StringOf(start + Len(files))>> ELSE NoToken ]

\* StorageService.getAllMindMaps: no total in the response
GcsGetAllMindMaps(directory, pageToken, limit) ==
    LET page == GcsGetFiles(directory, pageToken, limit)
        jsonFiles == SelectSeq(page.files, IsJsonFile)
    IN Response(ReadItems("gcs", jsonFiles), <<>>, page.nextQuery)

GetAllMindMaps(be, directory, pageToken, limit) ==
    IF be = "local"
    THEN LocalGetAllMindMaps(directory, pageToken, limit)
    ELSE GcsGetAllMindMaps(directory, pageToken, limit)

\* One getAllMindMaps call of the client, with the listing it ran against.
Page(pageToken, limit) ==
    [ pageToken |-> pageToken, limit |-> limit, dir |-> dir,
      response |-> GetAllMindMaps(backend, dir, pageToken, limit) ]

\* -------------------------------------------------------------------- store
HasFile(directory, name) == \E k \in DOMAIN directory : directory[k].name = name

InsertAt(s, pos, e) == SubSeq(s, 1, pos - 1) \o <<e>> \o SubSeq(s, pos, Len(s))

\* The listings after name has been written with content: an existing file
\* keeps its place, a new one takes the place the store gives it.
PutFile(directory, name, content) ==
    IF HasFile(directory, name)
    THEN {[k \in DOMAIN directory |->
              IF directory[k].name = name THEN File(name, content) ELSE directory[k]]}
    ELSE {InsertAt(directory, pos, File(name, content)) : pos \in 1..(Len(directory) + 1)}

StorageServiceError(message) == NewError("StorageServiceError", message)

\* catch (error): the local service rethrows, the GCS one wraps
StoreError(be) ==
    IF be = "local" THEN NewError("Error", "ENOSPC: no space left on device")
    ELSE StorageServiceError("Storage operation 'store' failed: Failed to store mind map in GCS")

\* What a failed write leaves: nothing, or (writeFile opens with 'w') a file
\* cut short; file.save replaces the object only when the upload is complete.
FailedWrite(be, directory, name) ==
    IF be = "local" THEN {directory} \cup PutFile(directory, name, Garbage) ELSE {directory}

\* storeMindMap(mindMap) up to its await: the key is computed, the write begun
StoreMindMapCall(doc) ==
    /\ Len(calls) < workload.stores
    /\ calls' = Append(calls, [doc |-> doc, fileName |-> FileName(doc),
                               state |-> "writing", result |-> <<>>])
    /\ UNCHANGED <<pipeline, services, backend, dir, pages, workload>>

WriteSettle(c, listing, result) ==
    /\ dir' = listing
    /\ calls' = [calls EXCEPT ![c] = [@ EXCEPT !.state = result.kind, !.result = <<result>>]]
    /\ UNCHANGED <<pipeline, services, backend, pages, workload>>

\* the write completes: return fileName
WriteFileResolve(c) ==
    /\ calls[c].state = "writing"
    /\ \E listing \in PutFile(dir, calls[c].fileName, Stringify(calls[c].doc)) :
          WriteSettle(c, listing, Resolved(calls[c].fileName))

\* the write fails: the catch logs and throws
WriteFileReject(c) ==
    /\ calls[c].state = "writing"
    /\ \E listing \in FailedWrite(backend, dir, calls[c].fileName) :
          WriteSettle(c, listing, Rejected(StoreError(backend)))

\* The client's first call: no token.
GetFirstPage(limit) ==
    /\ pages = <<>>
    /\ Len(pages) < workload.pages
    /\ backend = "gcs" => limit >= 1
    /\ pages' = <<Page(NoToken, limit)>>
    /\ UNCHANGED <<pipeline, services, backend, dir, calls, workload>>

\* The client's next call: the same limit, the token of the last response.
GetNextPage ==
    /\ pages # <<>>
    /\ Len(pages) < workload.pages
    /\ Last(pages).response.nextPageToken # NoToken
    /\ pages' = Append(pages, Page(Last(pages).response.nextPageToken, pages[1].limit))
    /\ UNCHANGED <<pipeline, services, backend, dir, calls, workload>>

\* The clients of a run: writers storing concurrently, or a reader paging
\* through the store while one more document is stored.
Workloads ==
    { [stores |-> MaxStoreCalls, pages |-> 0],
      [stores |-> 1, pages |-> MaxPages] }

\* No processMindMaps run is in progress.
PipelineIdle == InitRun(<<>>, 1, 1, DefaultRetryOptions, "OpenAIService")

StorageInit ==
    /\ PipelineIdle
    /\ ServicesIdle
    /\ backend \in {"local", "gcs"}
    /\ dir \in InitialListings
    /\ calls = <<>>
    /\ pages = <<>>
    /\ workload \in Workloads

StorageNext ==
    \/ \E doc \in StoreDocs : StoreMindMapCall(doc)
    \/ \E c \in DOMAIN calls : WriteFileResolve(c)
    \/ \E c \in DOMAIN calls : WriteFileReject(c)
    \/ \E limit \in 0..MaxLimit : GetFirstPage(limit)
    \/ GetNextPage

StorageSpec == StorageInit /\ [][StorageNext]_vars

\* ------------------------------------------------- one request at any place
\* The page tokens a caller may send: none, the empty one, a count up to past
\* the end of the store, a negative number, text that is no number.
PageTokens ==
    {NoToken, <<Empty>>, <<<<"-", "1">>>>, <<<<"a">>>>}
        \cup {<<StringOf(n)>> : n \in 0..(MaxFiles + 2)}

\* getAllMindMaps(pageToken, limit) with the caller's own token.
GetPageAt(pageToken, limit) ==
    /\ pages = <<>>
    /\ pages' = <<Page(pageToken, limit)>>
    /\ UNCHANGED <<pipeline, services, backend, dir, calls, workload>>

\* The caller follows the token of the last response, with the same limit.
FollowToken ==
    /\ pages # <<>>
    /\ Len(pages) < workload.pages
    /\ Last(pages).response.nextPageToken # NoToken
    /\ pages' = Append(pages, Page(Last(pages).response.nextPageToken, Last(pages).limit))
    /\ UNCHANGED <<pipeline, services, backend, dir, calls, workload>>

\* A caller of LocalStorageService.getAllMindMaps and an unchanging store.
PageInit ==
    /\ PipelineIdle
    /\ ServicesIdle
    /\ backend = "local"
    /\ dir \in InitialListings
    /\ calls = <<>>
    /\ pages = <<>>
    /\ workload = [stores |-> 0, pages |-> MaxPages]

PageNext ==
    \/ \E pageToken \in PageTokens, limit \in 0..MaxLimit : GetPageAt(pageToken, limit)
    \/ FollowToken

PageSpec == PageInit /\ [][PageNext]_vars

\* ============================================================= HTTP server
\* server.ts registers configPlugin, then authPlugin, then the routes. A URL
\* is the tuple of the pieces of request.url, so that startsWith is a prefix
\* test on tuples: '/public/info' is <<"/", "public", "/info">>.
MaxRequests == 1

\* plugins/config.ts, ConfigSchema: API_KEY is optional, minLength 8;
\* plugins/api-auth.ts compares the length with the same number.
MinKeyLength == 8

ApiKey == "secret-key-1"
ShortKey == "abc"

\* process.env: API_KEY unset, too short, or long enough.
Environments == { <<>>, [API_KEY |-> ShortKey], [API_KEY |-> ApiKey] }

HasApiKey(record) == "API_KEY" \in DOMAIN record

\* ajv.compile(ConfigSchema)(process.env), as far as API_KEY goes.
ConfigValid(e) == HasApiKey(e) => Len(e.API_KEY) >= MinKeyLength

DefaultInputCsvPath == "./data/input_context_v2.csv"
DefaultOutputCsvPath == "/tmp/output_results.csv"
CustomInputCsvPath == "./data/custom_input.csv"

Files == [inputCsvPath |-> DefaultInputCsvPath, outputCsvPath |-> DefaultOutputCsvPath]

\* The config object configPlugin decorates the server with.
ConfigOf(e) ==
    IF HasApiKey(e) THEN [API_KEY |-> e.API_KEY, files |-> Files] ELSE [files |-> Files]

Root == <<"/">>
Public == <<"/", "public">>
Query == "?x=1"

GetUrls ==
    { Root, <<"/", Query>>, <<"/", "public", "/info">>, <<"/", "public", "ity">>,
      <<"/", "mindmaps">>, <<"/", "api", "/protected">> }

GenerateUrl == <<"/", "mindmaps", "/generate">>

HeaderName == "x-api-key"

\* The x-api-key header: absent, empty, the key, another value of the same
\* length, a value of another length.
HeaderSets ==
    {<<>>} \cup {HeaderName :> v : v \in {"", ApiKey, "secret-key-2", "wrong"}}

Bodies == { <<>>, [inputCsvPath |-> ""], [inputCsvPath |-> CustomInputCsvPath] }

Requests ==
    {[method |-> "GET", url |-> u, headers |-> h, body |-> <<>>] :
        u \in GetUrls, h \in HeaderSets}
    \cup {[method |-> "POST", url |-> GenerateUrl, headers |-> h, body |-> b] :
        h \in HeaderSets, b \in Bodies}

StartsWith(s, prefix) ==
    Len(s) >= Len(prefix) /\ SubSeq(s, 1, Len(prefix)) = prefix

\* request.url === '/' || request.url.startsWith('/public'); request.url is
\* the raw URL, query string included.
IsPublicUrl(url) == url = Root \/ StartsWith(url, Public)

AppError(message, statusCode) ==
    [class |-> "AppError", message |-> message, statusCode |-> statusCode]

Returns == [class |-> "none"]

\* mutant: the key is compared by length only
MutValidateApiKeyByLength(cfg, headers) ==
    IF ~HasApiKey(cfg) \/ Len(cfg.API_KEY) < MinKeyLength THEN Returns
    ELSE IF HeaderName \notin DOMAIN headers \/ headers[HeaderName] = ""
         THEN AppError("API key missing", 401)
    ELSE IF Len(headers[HeaderName]) # Len(cfg.API_KEY)
         THEN AppError("Invalid API key", 403)
    ELSE Returns

\* request.validateApiKey(): what it throws, or Returns.
ValidateApiKey(cfg, headers) ==
    IF ~HasApiKey(cfg) \/ Len(cfg.API_KEY) < MinKeyLength THEN Returns
    ELSE IF HeaderName \notin DOMAIN headers \/ headers[HeaderName] = ""
         THEN AppError("API key missing", 401)
    ELSE IF Len(headers[HeaderName]) # Len(cfg.API_KEY)
         THEN AppError("Invalid API key", 403)
    ELSE IF headers[HeaderName] # cfg.API_KEY
         THEN AppError("Invalid API key", 403)
    ELSE Returns

Reply(statusCode, payload) == [statusCode |-> statusCode, payload |-> payload]

\* await server.register(config); await server.register(auth); ...
RegisterPlugins ==
    /\ server = "starting"
    /\ IF ConfigValid(env)
          THEN server' = "ready" /\ fastifyConfig' = ConfigOf(env)
          ELSE server' = "failed" /\ UNCHANGED fastifyConfig
    /\ UNCHANGED <<pipeline, storage, adapter, csv, concurrent, env, exchanges, processMindMapsCalls>>

Receive(request) ==
    /\ server = "ready"
    /\ Len(exchanges) < MaxRequests
    /\ exchanges' = Append(exchanges,
            [request |-> request, hook |-> "pending", state |-> "onRequest",
             exists |-> <<>>, settled |-> <<>>, reply |-> <<>>])
    /\ UNCHANGED <<pipeline, storage, adapter, csv, concurrent, env, server, fastifyConfig, processMindMapsCalls>>

\* The onRequest hook of authPlugin.
OnRequest(e) ==
    /\ exchanges[e].state = "onRequest"
    /\ LET request == exchanges[e].request
           error == ValidateApiKey(fastifyConfig, request.headers)
       IN  IF IsPublicUrl(request.url) \/ error = Returns
              THEN exchanges' = [exchanges EXCEPT ![e].hook = "passed", ![e].state = "handler"]
              ELSE exchanges' = [exchanges EXCEPT
                        ![e].hook = "rejected",
                        ![e].state = "replied",
                        ![e].reply = <<Reply(error.statusCode, [error |-> error.message])>>]
    /\ UNCHANGED <<pipeline, storage, adapter, csv, concurrent, env, server, fastifyConfig, processMindMapsCalls>>

IsGenerate(request) == request.method = "POST" /\ request.url = GenerateUrl

\* Any route but POST /mindmaps/generate.
OtherHandler(e) ==
    /\ exchanges[e].state = "handler"
    /\ ~IsGenerate(exchanges[e].request)
    /\ exchanges' = [exchanges EXCEPT
            ![e].state = "replied", ![e].reply = <<Reply(200, [status |-> "ok"])>>]
    /\ UNCHANGED <<pipeline, storage, adapter, csv, concurrent, env, server, fastifyConfig, processMindMapsCalls>>

\* inputCsvPath || fastify.config.files.inputCsvPath
InputPath(cfg, body) ==
    IF "inputCsvPath" \in DOMAIN body /\ body.inputCsvPath # ""
        THEN body.inputCsvPath ELSE cfg.files.inputCsvPath

\* outputCsvPath || fastify.config.files.outputCsvPath
OutputPath(cfg, body) ==
    IF "outputCsvPath" \in DOMAIN body /\ body.outputCsvPath # ""
        THEN body.outputCsvPath ELSE cfg.files.outputCsvPath

\* mutant: the handler does not look for the input file
MutGenerateHandler(e, exists) ==
    /\ exchanges[e].state = "handler"
    /\ IsGenerate(exchanges[e].request)
    /\ LET body == exchanges[e].request.body
       IN  /\ processMindMapsCalls' = Append(processMindMapsCalls,
                    [exchange |-> e,
                     inputPath |-> InputPath(fastifyConfig, body),
                     outputPath |-> OutputPath(fastifyConfig, body)])
           /\ exchanges' = [exchanges EXCEPT
                    ![e].exists = <<exists>>, ![e].state = "processing"]
    /\ UNCHANGED <<pipeline, storage, adapter, csv, concurrent, env, server, fastifyConfig>>

\* The handler of POST /mindmaps/generate up to its await; exists is what
\* existsSync(inputPath) answers.
GenerateHandler(e, exists) ==
    /\ exchanges[e].state = "handler"
    /\ IsGenerate(exchanges[e].request)
    /\ LET body == exchanges[e].request.body
           inputPath == InputPath(fastifyConfig, body)
       IN  IF ~exists
              THEN /\ exchanges' = [exchanges EXCEPT
                        ![e].exists = <<exists>>,
                        ![e].state = "replied",
                        ![e].reply = <<Reply(400,
                            [error |-> "Input CSV file not found: " \o inputPath])>>]
                   /\ UNCHANGED processMindMapsCalls
              ELSE /\ processMindMapsCalls' = Append(processMindMapsCalls,
                        [exchange |-> e,
                         inputPath |-> inputPath,
                         outputPath |-> OutputPath(fastifyConfig, body)])
                   /\ exchanges' = [exchanges EXCEPT
                        ![e].exists = <<exists>>, ![e].state = "processing"]
    /\ UNCHANGED <<pipeline, storage, adapter, csv, concurrent, env, server, fastifyConfig>>

\* What processMindMaps may resolve with.
Reports ==
    { <<>>,
      <<Success(Algebra)>>,
      <<Success(Algebra), Failure(Geometry, "OpenAI API Error: Request timed out.")>> }

\* results.map((r) => ({ ...r, filePath: ... }))
WithFilePath(r, outputPath) ==
    IF r.status = "Success"
        THEN [topic |-> r.topic, status |-> r.status,
              filePath |-> <<outputPath, "/", r.topic, ".json">>]
        ELSE r

\* The reply serializer of GenerationResponseSchema keeps topic, status, error.
SerializeResult(r) ==
    [k \in DOMAIN r \cap {"topic", "status", "error"} |-> r[k]]

CallOf(e) == CHOOSE c \in Range(processMindMapsCalls) : c.exchange = e

\* processMindMaps returns: the handler returns { results: ... }.
ProcessMindMapsResolve(e, report) ==
    /\ exchanges[e].state = "processing"
    /\ exchanges' = [exchanges EXCEPT
            ![e].state = "replied",
            ![e].settled = <<Resolved(report)>>,
            ![e].reply = <<Reply(200,
                [results |-> [k \in DOMAIN report |->
                    SerializeResult(WithFilePath(report[k], CallOf(e).outputPath))]])>>]
    /\ UNCHANGED <<pipeline, storage, adapter, csv, concurrent, env, server, fastifyConfig, processMindMapsCalls>>

\* processMindMaps throws: the catch of the handler.
ProcessMindMapsReject(e, error) ==
    /\ exchanges[e].state = "processing"
    /\ exchanges' = [exchanges EXCEPT
            ![e].state = "replied",
            ![e].settled = <<Rejected(error)>>,
            ![e].reply = <<Reply(500, [error |-> "Failed to generate mind maps"])>>]
    /\ UNCHANGED <<pipeline, storage, adapter, csv, concurrent, env, server, fastifyConfig, processMindMapsCalls>>

HttpInit ==
    /\ PipelineIdle
    /\ StorageIdle
    /\ RunsIdle
    /\ AdapterIdle
    /\ CsvIdle
    /\ env \in Environments
    /\ server = "starting"
    /\ fastifyConfig = <<>>
    /\ exchanges = <<>>
    /\ processMindMapsCalls = <<>>

HttpNext ==
    \/ RegisterPlugins
    \/ \E request \in Requests : Receive(request)
    \/ \E e \in DOMAIN exchanges : OnRequest(e)
    \/ \E e \in DOMAIN exchanges : OtherHandler(e)
    \/ \E e \in DOMAIN exchanges, exists \in BOOLEAN : GenerateHandler(e, exists)
    \/ \E e \in DOMAIN exchanges, report \in Reports : ProcessMindMapsResolve(e, report)
    \/ \E e \in DOMAIN exchanges, error \in {ReadError, FinalWriteError} :
            ProcessMindMapsReject(e, error)

HttpSpec == HttpInit /\ [][HttpNext]_vars

\* ======================================================= generation adapter
\* OpenAIService.generateMindMap and ValidationService.validateRawMindMapData.
\* A JSON value is a record with its type: null, string (value), number
\* (number), array (items) or object (props, a record of JSON values).
MaxFanout == 2

JNull == [type |-> "null"]
JString(s) == [type |-> "string", value |-> s]
JNumber(n) == [type |-> "number", number |-> n]
JArray(items) == [type |-> "array", items |-> items]
JObject(props) == [type |-> "object", props |-> props]
Undefined == [type |-> "undefined"]

\* !value
Falsy(v) ==
    \/ v.type \in {"null", "undefined"}
    \/ v.type = "string" /\ v.value = ""
    \/ v.type = "number" /\ v.number = 0

\* typeof value === 'object'
TypeofObject(v) == v.type \in {"object", "array", "null"}

\* value[key]
Get(v, key) ==
    IF v.type = "object" /\ key \in DOMAIN v.props THEN v.props[key] ELSE Undefined

\* Sequences of up to n elements whose element at place i is in At(i).
PlacedSeqs(At(_), n) ==
    UNION {{q \in [1..k -> UNION {At(i) : i \in 1..k}] : \A i \in 1..k : q[i] \in At(i)} :
            k \in 0..n}

\* What the API may answer below a child node: a leaf, or at each place one
\* kind of ill-formed entry (no object, no text, a text that is no string).
GrandchildAt(i) ==
    { JObject([text |-> JString("g")]),
      CASE i = 1 -> JString("g")
        [] i = 2 -> JObject([label |-> JString("g")])
        [] OTHER -> JObject([text |-> JNumber(7)]) }

GrandchildArrays == PlacedSeqs(GrandchildAt, MaxFanout)

ChildAt(i) ==
    { JObject([text |-> JString("c")]),
      JObject([text |-> JString("c"), children |-> JNull]),
      JNull }
    \cup {JObject([text |-> JString("c"), children |-> JArray(a)]) : a \in GrandchildArrays}

ChildArrays == PlacedSeqs(ChildAt, MaxFanout)

RawRoots ==
    { JString("r"), JArray(<<>>), JObject(<<>>),
      JObject([text |-> JString("r")]),
      JObject([text |-> JString("")]),
      JObject([text |-> JNumber(7)]),
      JObject([text |-> JString("r"), children |-> JString("c")]) }
    \cup {JObject([text |-> JString("r"), children |-> JArray(a)]) : a \in ChildArrays}
    \cup {JObject([children |-> JArray(a)]) : a \in ChildArrays}

\* What JSON.parse may give for the content of a completion.
ParsedValues ==
    { JNull, JString("r"), JNumber(7), JArray(<<>>), JObject(<<>>) }
    \cup {JObject([root |-> r]) : r \in RawRoots}

RECURSIVE ValidateRawMindMapNode(_)
ValidateRawMindMapNode(node) ==
    IF Falsy(node) \/ ~TypeofObject(node) THEN FALSE
    ELSE IF Get(node, "text").type # "string" THEN FALSE
    ELSE IF Get(node, "children").type # "undefined"
         THEN IF Get(node, "children").type # "array" THEN FALSE
              ELSE \A k \in DOMAIN Get(node, "children").items :
                        ValidateRawMindMapNode(Get(node, "children").items[k])
    ELSE TRUE

\* mutant: the children of the root are not looked at
MutValidateRawMindMapDataShallow(data) ==
    IF Falsy(data) \/ ~TypeofObject(data) THEN FALSE
    ELSE IF Falsy(Get(data, "root")) \/ ~TypeofObject(Get(data, "root")) THEN FALSE
    ELSE IF Get(Get(data, "root"), "text").type # "string" THEN FALSE
    ELSE TRUE

ValidateRawMindMapData(data) ==
    IF Falsy(data) \/ ~TypeofObject(data) THEN FALSE
    ELSE IF Falsy(Get(data, "root")) \/ ~TypeofObject(Get(data, "root")) THEN FALSE
    ELSE LET root == Get(data, "root")
         IN  IF Get(root, "text").type # "string" THEN FALSE
             ELSE IF Get(root, "children").type # "undefined"
                  THEN IF Get(root, "children").type # "array" THEN FALSE
                       ELSE \A k \in DOMAIN Get(root, "children").items :
                                ValidateRawMindMapNode(Get(root, "children").items[k])
             ELSE TRUE

\* The content of a completion: the text of a JSON value as it is, the same
\* inside a ```json fence, prose around the braces of an object, or prose
\* without any brace.
Contents ==
    {[format |-> "json", value |-> v] : v \in ParsedValues}
    \cup {[format |-> f, value |-> JObject([root |-> r])] :
            f \in {"fenced", "embedded"},
            r \in { JObject([text |-> JString("r")]), JObject([text |-> JNumber(7)]) }}
    \cup {[format |-> "prose"]}

\* content.match(/```json\s*([\s\S]*?)\s*```|({[\s\S]*})/): the JSON text
\* matched, if any.
JsonMatch(content) ==
    IF content.format \in {"fenced", "embedded"} THEN <<content.value>>
    ELSE IF content.format = "json" /\ content.value.type = "object" THEN <<content.value>>
    ELSE <<>>

RawCheck(data) == [data |-> data, valid |-> ValidateRawMindMapData(data)]

\* extractJsonFromContent(content): how it ends, and the
\* validateRawMindMapData calls it made.
ExtractJsonFromContent(content) ==
    IF content.format = "json" /\ ValidateRawMindMapData(content.value)
    THEN [outcome |-> Resolved(content.value), checks |-> <<RawCheck(content.value)>>]
    ELSE LET first == IF content.format = "json" THEN <<RawCheck(content.value)>> ELSE <<>>
             match == JsonMatch(content)
         IN  IF match = <<>>
             THEN [outcome |-> Rejected(AppValidationError(
                        "No valid JSON structure found in OpenAI response")),
                   checks |-> first]
             ELSE IF ValidateRawMindMapData(match[1])
                  THEN [outcome |-> Resolved(match[1]),
                        checks |-> Append(first, RawCheck(match[1]))]
                  ELSE [outcome |-> Rejected(AppValidationError(
                            "Failed to parse extracted JSON from OpenAI response")),
                        checks |-> Append(first, RawCheck(match[1]))]

\* child && typeof child.text === 'string'
KeepsChild(child) == ~Falsy(child) /\ Get(child, "text").type = "string"

RECURSIVE ProcessMindMapNode(_, _)
RECURSIVE ProcessChildren(_, _)

\* mutant: the children take the id of their parent
MutProcessChildrenSameId(children, n) ==
    IF children = <<>> THEN [nodes |-> <<>>, next |-> n]
    ELSE LET head == ProcessMindMapNode(Head(children), n - 1)
             rest == ProcessChildren(Tail(children), head.next)
         IN  [nodes |-> <<head.node>> \o rest.nodes, next |-> rest.next]

\* children.map((child) => this.processMindMapNode(child)), n being the
\* number of randomUUID() calls made before.
ProcessChildren(children, n) ==
    IF children = <<>> THEN [nodes |-> <<>>, next |-> n]
    ELSE LET head == ProcessMindMapNode(Head(children), n)
             rest == ProcessChildren(Tail(children), head.next)
         IN  [nodes |-> <<head.node>> \o rest.nodes, next |-> rest.next]

\* processMindMapNode(node): the node built and the randomUUID() count after.
ProcessMindMapNode(node, n) ==
    LET children == Get(node, "children")
    IN  IF children.type = "array" /\ Len(children.items) > 0
        THEN LET below == ProcessChildren(SelectSeq(children.items, KeepsChild), n + 1)
             IN  [node |-> [id |-> n + 1, text |-> Get(node, "text").value,
                            children |-> below.nodes],
                  next |-> below.next]
        ELSE [node |-> [id |-> n + 1, text |-> Get(node, "text").value], next |-> n + 1]

\* The failures of openai.chat.completions.create other than the timeout.
ApiErrors == { NewError("APIConnectionError", "Connection error.") }

TimeoutMs == 30000

ApiTimeoutError == NewError("APIConnectionTimeoutError", "Request timed out.")

\* generateMindMap(subject, topic) up to await openai.chat.completions.create.
GenerateMindMapCall(subject, topic) ==
    /\ generation.state = "idle"
    /\ generation' = [state |-> "calling", subject |-> subject, topic |-> topic,
                      timeout |-> TimeoutMs]
    /\ UNCHANGED <<pipeline, storage, http, csv, concurrent, uuids>>

Settled(api, checks, result) ==
    [state |-> "settled", subject |-> generation.subject, topic |-> generation.topic,
     api |-> api, checks |-> checks, result |-> result]

\* mutant: the error of the API call is thrown on as it is
MutApiFailedRethrow(error) ==
    /\ generation' = Settled(Rejected(error), <<>>, Rejected(error))
    /\ UNCHANGED <<pipeline, storage, http, csv, concurrent, uuids>>

\* The API call failed: the catch around it.
ApiFailed(error) ==
    /\ generation' = Settled(Rejected(error), <<>>,
            Rejected(ExternalAPIError("OpenAI API Error: " \o error.message)))
    /\ UNCHANGED <<pipeline, storage, http, csv, concurrent, uuids>>

ApiReject(error) ==
    /\ generation.state = "calling"
    /\ ApiFailed(error)

\* No answer within the timeout of the request: the client rejects.
ApiTimeout ==
    /\ generation.state = "calling"
    /\ ApiFailed(ApiTimeoutError)

\* The completion carries no content (null or the empty string).
ApiResolveEmpty ==
    /\ generation.state = "calling"
    /\ generation' = Settled(Resolved(<<>>), <<>>,
            Rejected(ExternalAPIError("OpenAI API Error: No content returned from API")))
    /\ UNCHANGED <<pipeline, storage, http, csv, concurrent, uuids>>

\* The completion carries content: extract, translate, validate, return.
ApiResolve(content) ==
    /\ generation.state = "calling"
    /\ LET extracted == ExtractJsonFromContent(content)
       IN  IF extracted.outcome.kind = "rejected"
           THEN /\ generation' = Settled(Resolved(<<content>>), extracted.checks,
                                         extracted.outcome)
                /\ UNCHANGED uuids
           ELSE LET root == ProcessMindMapNode(Get(extracted.outcome.value, "root"), uuids + 1)
                    doc == [id |-> uuids + 1, subject |-> generation.subject,
                            topic |-> generation.topic, root |-> root.node,
                            createdAt |-> "iso"]
                IN  /\ uuids' = root.next
                    /\ generation' = Settled(Resolved(<<content>>), extracted.checks,
                            IF ValidateMindMap(doc) THEN Resolved(doc)
                            ELSE Rejected(AppValidationError(
                                "Failed to process OpenAI response into valid MindMap structure")))
    /\ UNCHANGED <<pipeline, storage, http, csv, concurrent>>

AdapterInit ==
    /\ PipelineIdle
    /\ StorageIdle
    /\ RunsIdle
    /\ HttpIdle
    /\ CsvIdle
    /\ AdapterIdle

AdapterNext ==
    \/ \E row \in ValidRows : GenerateMindMapCall(row.subject, row.topic)
    \/ \E error \in ApiErrors : ApiReject(error)
    \/ ApiTimeout
    \/ ApiResolveEmpty
    \/ \E content \in Contents : ApiResolve(content)

AdapterSpec == AdapterInit /\ [][AdapterNext]_vars

\* ============================================== CSV writer and row check
MaxCsvCalls == 2

\* The results handed to writeOutputCSV: at place i a Success or a Failure
\* of the topic of that place.
ResultsAt(i) ==
    { Success(Topics[((i - 1) % Len(Topics)) + 1]),
      Failure(Topics[((i - 1) % Len(Topics)) + 1], "Service unavailable") }

WriteInputs == PlacedSeqs(ResultsAt, MaxRows)

\* results.map(({ topic, status }) => ({ topic, status }))
OutputRows(rows) == [k \in DOMAIN rows |-> [topic |-> rows[k].topic, status |-> rows[k].status]]

BlankOutputRow == [topic |-> Empty, status |-> ""]

\* writeCSVData(filePath, rows): the lines format({ headers: true }) puts in
\* the file, the header taken from the keys of the first row written.
WriteCSVData(rows) ==
    [header |-> <<"topic", "status">>,
     body |-> IF Len(rows) = 0 THEN <<BlankOutputRow>> ELSE rows]

WriteOutputCSVCall(path, rows) ==
    /\ Len(csvCalls) < MaxCsvCalls
    /\ csvCalls' = Append(csvCalls,
            [op |-> "writeOutputCSV", path |-> path, results |-> rows,
             state |-> "pending", file |-> <<>>, thrown |-> <<>>])
    /\ UNCHANGED <<pipeline, storage, http, adapter, concurrent>>

\* The write stream finishes: the file is there, the promise resolves.
WriteStreamFinish(c) ==
    /\ csvCalls[c].op = "writeOutputCSV"
    /\ csvCalls[c].state = "pending"
    /\ csvCalls' = [csvCalls EXCEPT
            ![c].state = "resolved",
            ![c].file = <<WriteCSVData(OutputRows(csvCalls[c].results))>>]
    /\ UNCHANGED <<pipeline, storage, http, adapter, concurrent>>

\* mkdir or a stream fails: writeToLocalFS throws FileSystemError.
WriteStreamError(c) ==
    /\ csvCalls[c].op = "writeOutputCSV"
    /\ csvCalls[c].state = "pending"
    /\ csvCalls' = [csvCalls EXCEPT
            ![c].state = "rejected",
            ![c].thrown = <<FileSystemError(
                "File system operation write failed for path: " \o csvCalls[c].path)>>]
    /\ UNCHANGED <<pipeline, storage, http, adapter, concurrent>>

JBoolean(b) == [type |-> "boolean", bool |-> b]

\* What a caller may hand to validateCSVInputRow: rows as the CSV parser
\* builds them (string fields, maybe a column too many) and values of other
\* types.
RowValues ==
    { JNull, JString(Math) }
    \cup { JObject(r) :
            r \in { [subject |-> s, topic |-> t] :
                        s \in {JString(Math), JString(Empty), JNumber(5), JNull},
                        t \in {JString(Algebra), JString(Empty), JString(Blank)} }
                \cup { [subject |-> s, topic |-> t, note |-> JString(<<"x">>)] :
                        s \in {JString(Math), JNumber(5)},
                        t \in {JString(Algebra), JString(Empty)} }
                \cup { [subject |-> JString(Math)],
                       [topic |-> JString(Algebra)],
                       [topic |-> JString(Algebra), note |-> JString(<<"x">>)] } }

\* Ajv, coerceTypes: true, for { type: 'string' }: a number or a boolean
\* becomes its text, null the empty string; other values stay.
CoerceToString(v) ==
    CASE v.type = "number" -> JString(StringOf(v.number))
      [] v.type = "boolean" -> JString(IF v.bool THEN <<"t", "r", "u", "e">>
                                        ELSE <<"f", "a", "l", "s", "e">>)
      [] v.type = "null" -> JString(Empty)
      [] OTHER -> v

SchemaProperties == {"subject", "topic"}

\* csvInputRowValidator(data), compiled from CSVInputRowSchema with
\* removeAdditional: true and coerceTypes: true: the verdict, and data as
\* the call leaves it.
CsvInputRowValidator(data) ==
    IF data.type # "object" THEN [valid |-> FALSE, data |-> data]
    ELSE LET after == [k \in DOMAIN data.props \cap SchemaProperties |->
                            CoerceToString(data.props[k])]
         IN  [valid |-> /\ SchemaProperties \subseteq DOMAIN after
                        /\ \A k \in SchemaProperties :
                                after[k].type = "string" /\ MinLengthOk(after[k].value),
              data |-> JObject(after)]

\* validateCSVInputRowOrThrow(data)
ValidateCSVInputRowOrThrow(data) ==
    /\ Len(csvCalls) < MaxCsvCalls
    /\ LET checked == CsvInputRowValidator(data)
       IN  csvCalls' = Append(csvCalls,
                [op |-> "validateCSVInputRowOrThrow", before |-> data,
                 after |-> checked.data, valid |-> checked.valid,
                 thrown |-> IF checked.valid THEN <<>>
                            ELSE <<ValidationError("Invalid CSV input row structure")>>])
    /\ UNCHANGED <<pipeline, storage, http, adapter, concurrent>>

CsvInit ==
    /\ PipelineIdle
    /\ StorageIdle
    /\ RunsIdle
    /\ HttpIdle
    /\ AdapterIdle
    /\ CsvIdle

CsvNext ==
    \/ \E rows \in WriteInputs : WriteOutputCSVCall("output.csv", rows)
    \/ \E c \in DOMAIN csvCalls : WriteStreamFinish(c)
    \/ \E c \in DOMAIN csvCalls : WriteStreamError(c)
    \/ \E data \in RowValues : ValidateCSVInputRowOrThrow(data)

CsvSpec == CsvInit /\ [][CsvNext]_vars

\* ======================================================== concurrent runs
MaxRuns == 2

OutputPaths == {"a.csv", "b.csv"}

\* processMindMaps(inputCsvPath, outputCsvPath, maxConcurrent, batchSize)
\* called on the one MindMapService of the server, after readInputCSV gave
\* rowCount rows.
NewRun(path, rowCount, size) ==
    [outputCsvPath |-> path, rowCount |-> rowCount, batchSize |-> size,
     index |-> 0, processedRowCount |-> 0, pc |-> "loop", written |-> <<>>]

\* One turn of the loop over the chunks: the rows of the chunk have their
\* outcomes, processedRowCount grows by the chunk's length and the checkpoint
\* is written, or fails to be, under the partial path.
RunBatch(r, ok) ==
    /\ runs[r].pc = "loop"
    /\ runs[r].index < NumChunks(runs[r].rowCount, runs[r].batchSize)
    /\ LET run == runs[r]
           batch == Chunk(run.index, run.batchSize, run.rowCount)
           count == run.processedRowCount + Len(batch)
       IN  runs' = [runs EXCEPT
                ![r].index = @ + 1,
                ![r].processedRowCount = count,
                ![r].written =
                    IF WritesCheckpoint(batch)
                    THEN Append(@, [path |-> PartialFilePath(run.outputCsvPath, count),
                                    ok |-> ok])
                    ELSE @]
    /\ UNCHANGED <<pipeline, storage, http, adapter, csv>>

\* After the loop: writeOutputCSV(outputCsvPath, allResults), then return,
\* or rethrow what the write threw.
RunFinalWrite(r, ok) ==
    /\ runs[r].pc = "loop"
    /\ runs[r].index = NumChunks(runs[r].rowCount, runs[r].batchSize)
    /\ runs' = [runs EXCEPT
            ![r].pc = IF ok THEN "returned" ELSE "threw",
            ![r].written = Append(@, [path |-> FinalFilePath(runs[r].outputCsvPath),
                                      ok |-> ok])]
    /\ UNCHANGED <<pipeline, storage, http, adapter, csv>>

\* MaxRuns runs are under way at once, each with its own arguments.
RunsInit ==
    /\ PipelineIdle
    /\ StorageIdle
    /\ HttpIdle
    /\ AdapterIdle
    /\ CsvIdle
    /\ \E paths \in [1..MaxRuns -> OutputPaths],
          counts \in [1..MaxRuns -> 0..MaxRows],
          sizes \in [1..MaxRuns -> 1..MaxBatch] :
            runs = [r \in 1..MaxRuns |-> NewRun(paths[r], counts[r], sizes[r])]

RunsNext ==
    \/ \E r \in DOMAIN runs, ok \in BOOLEAN : RunBatch(r, ok)
    \/ \E r \in DOMAIN runs, ok \in BOOLEAN : RunFinalWrite(r, ok)

RunsSpec == RunsInit /\ [][RunsNext]_vars

\* =================================================================== claims
Done(i) == rowState[i] = "done"

Outcome(i) == results[i][1].value

Retries == retryOptions.retries

\* an error of the transient kind: a communication failure, not a validation one
IsTransient(error) == error.class \in {"ExternalAPIError", "Error"}

IsValidationClass(error) ==
    error.class \in {"errors/ValidationError", "validation.service/ValidationError"}

AllTransient(errs) == \A k \in DOMAIN errs : IsTransient(errs[k])

StoreResolved(i) ==
    /\ storeLog[i] # <<>>
    /\ Last(storeLog[i]).outcome # <<>>
    /\ Last(storeLog[i]).outcome[1].kind = "resolved"

InFlight == {i \in Rows : rowState[i] \in {"generating", "backoff", "storing"}}

RECURSIVE TrimStart(_)
TrimStart(s) == IF s # <<>> /\ Head(s) = " " THEN TrimStart(Tail(s)) ELSE s

RECURSIVE TrimEnd(_)
TrimEnd(s) == IF s # <<>> /\ Last(s) = " " THEN TrimEnd(SubSeq(s, 1, Len(s) - 1)) ELSE s

Trim(s) == TrimEnd(TrimStart(s))

\* subject or topic missing, empty, or empty after trimming
IsBlankRow(row) ==
    \E f \in {"subject", "topic"} : f \notin DOMAIN row \/ Trim(row[f]) = <<>>

\* C1: when processMindMaps returns for N >= 1 valid rows, the Report has N
\* outcomes and outcome i carries the topic of input row i, whatever the
\* concurrency, the batch size and the order in which the rows completed.
C1_OrderPreserved ==
    (/\ pc = "returned"
     /\ Len(inputRows) >= 1
     /\ \A i \in Rows : ValidateCSVInputRow(inputRows[i]))
        => /\ Len(returned[1]) = Len(inputRows)
           /\ \A i \in Rows : returned[1][i].topic = inputRows[i].topic

\* two rows of one chunk processed concurrently, the first delayed by a retry
C1_Witness ==
    /\ pc = "returned"
    /\ Len(inputRows) = 2 /\ maxConcurrent = 2 /\ batchSize = 2
    /\ inputRows[1].topic # inputRows[2].topic
    /\ errors[1] # <<>> /\ errors[2] = <<>>
    /\ returned[1][1].status = "Success"
    /\ returned[1][2].status = "Success"

\* C2: at every moment the rows whose processing has started and has not
\* finished (generating, in backoff, storing) number at most maxConcurrent.
C2_BoundedInFlight == Cardinality(InFlight) <= maxConcurrent

\* the bound is reached while a row of the chunk waits in the queue
C2_Witness ==
    /\ Cardinality(InFlight) = maxConcurrent
    /\ queue # <<>>
    /\ \E i \in InFlight : rowState[i] = "backoff"

\* C3: processRow is entered at most once per row, and once the loop is over
\* exactly once per row, and the Report holds row i's outcome at position i
\* and nothing else.
C3_ExactlyOnce ==
    /\ \A i \in Rows : processRowCalls[i] <= 1
    /\ pc \in {"finalWrite", "returned"} =>
          /\ \A i \in Rows : processRowCalls[i] = 1
          /\ Len(allResults) = Len(inputRows)
          /\ \A i \in Rows : allResults[i] = Outcome(i)
    /\ pc = "returned" => returned[1] = allResults

C3_Witness ==
    /\ pc = "returned"
    /\ Len(inputRows) = 2 /\ batchSize = 1 /\ maxConcurrent = 2
    /\ \A i \in Rows : processRowCalls[i] = 1

\* C4: a row's failure stays with the row. processMindMaps throws only when
\* reading the input or the final write failed; once the loop is over every
\* row has an outcome, and a row's outcome is Failure exactly when its own
\* input check, generation, document check or store call failed.
OwnFailure(i) ==
    \/ ~ValidateCSVInputRow(inputRows[i])
    \/ mindMap[i] = <<>>
    \/ ~ValidateMindMap(mindMap[i][1])
    \/ ~StoreResolved(i)

GeneratedAfterFailures(i) ==
    /\ Done(i)
    /\ mindMap[i] # <<>>
    /\ AllTransient(errors[i])
    /\ Len(errors[i]) <= Retries

C5_Original ==
    \A i \in Rows : GeneratedAfterFailures(i) =>
        /\ Outcome(i).status = "Success"
        /\ attemptNumber[i] = Len(errors[i]) + 1
        /\ storeLog[i] # <<>> /\ storeLog[i][1].mindMap = mindMap[i][1]

\* C5 amended: a row is not given up while it has failed only transiently and
\* no more than retries times; when attempt k+1 then succeeds the generator
\* was called k+1 times, a valid document is the one passed to store, and the
\* outcome is Success exactly when the document is valid and the store call
\* resolved.
C5_RetryThenSuccess ==
    \A i \in Rows :
        /\ (Done(i) /\ ValidateCSVInputRow(inputRows[i]) /\ mindMap[i] = <<>>
                /\ AllTransient(errors[i]))
              => Len(errors[i]) > Retries
        /\ GeneratedAfterFailures(i) =>
              /\ attemptNumber[i] = Len(errors[i]) + 1
              /\ IF ValidateMindMap(mindMap[i][1])
                 THEN /\ Len(storeLog[i]) = 1
                      /\ storeLog[i][1].mindMap = mindMap[i][1]
                      /\ (Outcome(i).status = "Success") = StoreResolved(i)
                 ELSE storeLog[i] = <<>> /\ Outcome(i).status = "Failure"

\* two transient failures, a budget of two retries, then success
C5_Witness ==
    \E i \in Rows :
        /\ GeneratedAfterFailures(i)
        /\ Len(errors[i]) = 2 /\ Retries = 2
        /\ Outcome(i).status = "Success"

\* C6 as stated: more than retries transient failures, each with a message,
\* give retries+1 generator calls, a Failure whose error is the message of the
\* last failure, and no store call.
C6_Original ==
    \A i \in Rows :
        (/\ Done(i)
         /\ mindMap[i] = <<>>
         /\ errors[i] # <<>>
         /\ AllTransient(errors[i])
         /\ \A k \in DOMAIN errors[i] : errors[i][k].message # ""
         /\ Len(errors[i]) > Retries)
            => /\ attemptNumber[i] = Retries + 1
               /\ Outcome(i).status = "Failure"
               /\ Outcome(i).error = Last(errors[i]).message
               /\ storeLog[i] = <<>>

\* C7 as stated: after a validation-class error of the generator no further
\* attempt is made: the failed attempt is the only one and the row has failed.
C7_Original ==
    \A i \in Rows : \A k \in DOMAIN errors[i] :
        IsValidationClass(errors[i][k]) =>
            /\ attemptNumber[i] = 1
            /\ Done(i)
            /\ Outcome(i).status = "Failure"

\* the persisted shape: id, subject, topic, root and createdAt all present
HasMindMapShape(doc) == DOMAIN doc = {"id", "subject", "topic", "root", "createdAt"}

\* C8: storeMindMap is called at most once per row, with the document a
\* successful attempt returned and only if that document is valid; a finished
\* row is a Success exactly when its store call resolved, so the Report counts
\* as many Successes as there were store calls that resolved.
C8_StoreOnce ==
    /\ \A i \in Rows :
          /\ Len(storeLog[i]) <= 1
          /\ storeLog[i] # <<>> =>
                /\ mindMap[i] # <<>>
                /\ storeLog[i][1].mindMap = mindMap[i][1]
                /\ HasMindMapShape(mindMap[i][1])
          /\ Done(i) => ((Outcome(i).status = "Success") = StoreResolved(i))
    /\ pc = "returned" =>
          Cardinality({k \in DOMAIN returned[1] : returned[1][k].status = "Success"})
              = Cardinality({i \in Rows : StoreResolved(i)})

\* a store call that rejected next to one that resolved
C8_Witness ==
    /\ pc = "returned"
    /\ \E i \in Rows : StoreResolved(i) /\ Outcome(i).status = "Success"
    /\ \E i \in Rows : storeLog[i] # <<>> /\ ~StoreResolved(i) /\ Outcome(i).status = "Failure"

C10_Checkpoints ==
    LET n == Len(inputRows)
        chunks == Ceil(n, batchSize)
    IN n >= 1 =>
        /\ \A k \in DOMAIN writeCalls :
              IF k <= chunks
              THEN /\ writeCalls[k].path # FinalFilePath(outputCsvPath)
                   /\ Len(writeCalls[k].rows) = Min(k * batchSize, n)
                   /\ \A j \in 1..Min(k * batchSize, n) : writeCalls[k].rows[j] = Outcome(j)
              ELSE /\ k = chunks + 1
                   /\ writeCalls[k].path = FinalFilePath(outputCsvPath)
                   /\ Len(writeCalls[k].rows) = n
                   /\ \A j \in 1..n : writeCalls[k].rows[j] = Outcome(j)
        /\ pc = "finalWrite" => Len(writeCalls) = chunks
        /\ pc = "returned" => Len(writeCalls) = chunks + 1

\* two chunks of one row, the first row failed: three writes
C10_Witness ==
    /\ pc = "returned"
    /\ Len(inputRows) = 2 /\ batchSize = 1
    /\ Len(writeCalls) = 3
    /\ writeCalls[1].rows[1].status = "Failure"
    /\ Len(writeCalls[2].rows) = 2

\* the checkpoint writes that failed, by their place among the writes
FailedCheckpoints ==
    {k \in DOMAIN writeCalls :
        writeCalls[k].path # FinalFilePath(outputCsvPath) /\ ~writeCalls[k].ok}

FinalWriteCalled ==
    writeCalls # <<>> /\ Last(writeCalls).path = FinalFilePath(outputCsvPath)

FinalWriteFailed == FinalWriteCalled /\ ~Last(writeCalls).ok

\* the Report the rows' own outcomes make up, in input order
RowOutcomes == [i \in Rows |-> Outcome(i)]

\* C11: a failed checkpoint write is swallowed. processMindMaps throws only
\* for a failed final write, the loop goes on with the next chunk (or the final
\* write after the last one), every chunk still gets its checkpoint attempt,
\* and the Report returned holds each row's own outcome, which no write decides.
C11_CheckpointFailureSwallowed ==
    LET chunks == Ceil(Len(inputRows), batchSize)
    IN FailedCheckpoints # {} =>
        /\ thrown # <<>> => (thrown = <<FinalWriteError>> /\ FinalWriteFailed)
        /\ \A k \in FailedCheckpoints :
              Len(writeCalls) = k =>
                  IF k < chunks
                  THEN pc \in {"batch", "partialWrite"} /\ index = k
                  ELSE pc = "finalWrite"
        /\ pc \in {"finalWrite", "returned", "thrown"} =>
              /\ \A i \in Rows : Done(i) /\ processRowCalls[i] = 1
              /\ Cardinality({k \in DOMAIN writeCalls :
                     writeCalls[k].path # FinalFilePath(outputCsvPath)}) = chunks
        /\ pc = "returned" =>
              /\ returned[1] = RowOutcomes
              /\ \A i \in Rows :
                    Outcome(i).status = (IF OwnFailure(i) THEN "Failure" ELSE "Success")

\* the first of two checkpoints failed, the second and the final write went well
C11_Witness ==
    /\ pc = "returned"
    /\ Len(inputRows) = 2 /\ batchSize = 1
    /\ Len(writeCalls) = 3
    /\ ~writeCalls[1].ok /\ writeCalls[2].ok /\ writeCalls[3].ok
    /\ returned[1][2].status = "Success"

\* C12: when the final write fails, processMindMaps throws that error and
\* returns nothing.
C12_FinalWriteFailurePropagates ==
    FinalWriteFailed =>
        /\ pc = "thrown"
        /\ thrown = <<FinalWriteError>>
        /\ returned = <<>>

\* the final write failed after both rows had been processed
C12_Witness ==
    /\ FinalWriteFailed
    /\ Len(inputRows) = 2
    /\ \A i \in Rows : Done(i)
    /\ thrown # <<>>

\* C13 as stated: once the final write has been made, well or not, the
\* in-memory Report has been returned to the caller.
C13_Original == FinalWriteCalled => returned = <<allResults>>

\* C13 amended: the Report is returned exactly when the final write succeeded,
\* and it is then the accumulated Report, one outcome per row; when the final
\* write failed nothing is returned.
C13_ReturnsOnlyAfterFinalWrite ==
    /\ returned # <<>> => (FinalWriteCalled /\ Last(writeCalls).ok)
    /\ FinalWriteCalled =>
          IF Last(writeCalls).ok
          THEN /\ pc = "returned"
               /\ returned = <<allResults>>
               /\ Len(returned[1]) = Len(inputRows)
               /\ thrown = <<>>
          ELSE returned = <<>> /\ pc # "returned"

\* a Report of one failed row returned after a final write that went well
C13_Witness ==
    /\ pc = "returned"
    /\ Len(inputRows) = 1
    /\ FinalWriteCalled /\ Last(writeCalls).ok
    /\ returned[1][1].status = "Failure"

C15_EmptyInput ==
    Len(inputRows) = 0 =>
        /\ pc \notin {"batch", "partialWrite"}
        /\ Len(writeCalls) <= 1
        /\ \A k \in DOMAIN writeCalls :
              /\ writeCalls[k].path = FinalFilePath(outputCsvPath)
              /\ writeCalls[k].rows = <<>>
        /\ pc = "returned" => (returned = << <<>> >> /\ Len(writeCalls) = 1)

C15_Witness ==
    /\ Len(inputRows) = 0
    /\ pc = "returned"
    /\ Len(writeCalls) = 1 /\ writeCalls[1].ok

\* <output>.partial.<processedCount>
DerivedPartialPath(outputPath, processedCount) == <<outputPath, "partial", processedCount>>

\* C16 as stated: checkpoint k goes to the location derived from the requested
\* output path and the cumulative count of rows of the chunks completed.
C16_Original ==
    \A k \in DOMAIN writeCalls :
        writeCalls[k].path # FinalFilePath(outputCsvPath) =>
            writeCalls[k].path =
                DerivedPartialPath(outputCsvPath, Min(k * batchSize, Len(inputRows)))

\* ------------------------------------------------------------ storage claims
RECURSIVE Concat(_)
Concat(ss) == IF ss = <<>> THEN <<>> ELSE Head(ss) \o Concat(Tail(ss))

\* the documents delivered so far, in the order delivered
Delivered == Concat([k \in DOMAIN pages |-> pages[k].response.mindMaps])

\* every page request saw the listing the first one saw
StoreUnchanged == \A k \in DOMAIN pages : pages[k].dir = pages[1].dir

\* a pagination sequence as the claims take it: local storage, no token on
\* the first request, the same limit >= 1 throughout, an unchanging store
LocalSequence ==
    /\ backend = "local"
    /\ pages # <<>>
    /\ pages[1].limit >= 1
    /\ StoreUnchanged

NoDuplicates(s) == \A j, k \in DOMAIN s : s[j] = s[k] => j = k

\* the .json files of the listing the sequence ran against
Listed == SelectSeq(pages[1].dir, IsJsonFile)

CanBeRead(file) == file.content.kind = "json"

\* the first response after which no readable document is left to deliver
DeliversLast(k) ==
    /\ pages[k].response.mindMaps # <<>>
    /\ Len(Concat([j \in 1..k |-> pages[j].response.mindMaps]))
          = Len(SelectSeq(Listed, CanBeRead))

RunStarts(s) == {k \in DOMAIN s : ~(s[k] = " " /\ k > 1 /\ s[k - 1] = " ")}

\* s with every run of white space replaced by one underscore
Collapse(s) ==
    LET kept == Pick(s, RunStarts(s), 1)
    IN [k \in DOMAIN kept |-> IF kept[k] = " " THEN "_" ELSE kept[k]]

ExpectedKey(doc) ==
    Collapse(doc.subject) \o <<"_">> \o Collapse(doc.topic) \o <<"_", doc.id, ".json">>

FilesNamed(name) == {k \in DOMAIN dir : dir[k].name = name}

\* C18: the key of a store call is '<subject>_<topic>_<id>.json' with every
\* run of white space of subject and topic turned into one underscore; calls
\* for the same document resolve with the same key, and the store holds one
\* object under that key, however often the document was stored.
C18_KeyIsPure ==
    /\ \A c \in DOMAIN calls :
          /\ calls[c].fileName = ExpectedKey(calls[c].doc)
          /\ calls[c].state = "resolved" =>
                /\ calls[c].result[1].value = ExpectedKey(calls[c].doc)
                /\ Cardinality(FilesNamed(calls[c].fileName)) = 1
    /\ \A c, d \in DOMAIN calls :
          (calls[c].doc = calls[d].doc /\ calls[c].state = "resolved"
                /\ calls[d].state = "resolved")
              => calls[c].result = calls[d].result
    /\ \A j, k \in DOMAIN dir : dir[j].name = dir[k].name => j = k

\* the document with a run of two blanks in its subject stored twice
C18_Witness ==
    /\ Len(calls) = 2
    /\ calls[1].doc = calls[2].doc
    /\ calls[1].doc.subject = SpacedMath
    /\ calls[1].state = "resolved" /\ calls[2].state = "resolved"
    /\ calls[1].result[1].value = <<"M", "_", "a", "_", "A", "l", "_", "1", ".json">>
    /\ Cardinality(FilesNamed(calls[1].fileName)) = 1

SameSubjectAndTopic(a, b) == a.subject = b.subject /\ a.topic = b.topic

\* C19: store calls for documents with the same subject and topic and
\* distinct ids have distinct keys, and once such a call has resolved the
\* store holds its document under its key, whatever the other calls did and
\* in whatever order the writes completed.
C19_DistinctKeys ==
    \A c \in DOMAIN calls :
        LET others == {d \in DOMAIN calls :
                          d # c /\ SameSubjectAndTopic(calls[c].doc, calls[d].doc)}
        IN (\A d \in others : calls[d].doc.id # calls[c].doc.id) =>
              /\ \A d \in others : calls[d].fileName # calls[c].fileName
              /\ calls[c].state = "resolved" =>
                    \E k \in DOMAIN dir :
                        /\ dir[k].name = calls[c].fileName
                        /\ Parse(dir[k].content) = <<calls[c].doc>>

\* two calls in flight together, both resolved, two files with their own documents
C19_Witness ==
    /\ Len(calls) = 2
    /\ SameSubjectAndTopic(calls[1].doc, calls[2].doc)
    /\ calls[1].doc.id # calls[2].doc.id
    /\ calls[1].state = "resolved" /\ calls[2].state = "resolved"
    /\ \E j, k \in DOMAIN dir :
          /\ j > k
          /\ Parse(dir[j].content) = <<calls[1].doc>>
          /\ Parse(dir[k].content) = <<calls[2].doc>>

\* the files of the page a request asked for, in listing order
RequestedFiles(page) ==
    IF backend = "local"
    THEN LET files == SelectSeq(page.dir, IsJsonFile)
             currentOffset == Min(OffsetOf(page.pageToken), Len(files))
         IN Slice(files, currentOffset, currentOffset + page.limit)
    ELSE SelectSeq(GcsGetFiles(page.dir, page.pageToken, page.limit).files, IsJsonFile)

\* an item that can be read, parsed and validated
IsReadableItem(file) ==
    /\ file.content.kind = "json"
    /\ HasMindMapShape(file.content.value)

RECURSIVE ReadableItems(_)
ReadableItems(files) ==
    IF files = <<>> THEN <<>>
    ELSE (IF IsReadableItem(Head(files)) THEN <<Head(files).content.value>> ELSE <<>>)
            \o ReadableItems(Tail(files))

\* C20 as stated: every response holds exactly the items of the requested
\* page that can be read, parsed and validated, in listing order.
C20_Original ==
    \A k \in DOMAIN pages :
        pages[k].response.mindMaps = ReadableItems(RequestedFiles(pages[k]))

\* ------------------------------------------------------- claims C21 to C30
IsOutcomeShape(outcome) ==
    \/ outcome.status = "Success" /\ DOMAIN outcome = {"topic", "status"}
    \/ /\ outcome.status = "Failure"
       /\ DOMAIN outcome = {"topic", "status", "error"}
       /\ outcome.error # ""

\* C21: every outcome, of a finished row, of the Report accumulated, written
\* or returned, is a Success without error field or a Failure with a
\* non-empty error string.
C21_OutcomeShape ==
    /\ \A i \in Rows : Done(i) => IsOutcomeShape(Outcome(i))
    /\ \A k \in DOMAIN allResults : IsOutcomeShape(allResults[k])
    /\ \A w \in DOMAIN writeCalls :
          \A k \in DOMAIN writeCalls[w].rows : IsOutcomeShape(writeCalls[w].rows[k])
    /\ returned # <<>> => \A k \in DOMAIN returned[1] : IsOutcomeShape(returned[1][k])

\* a generator error without message ends in the Report with the fallback text
C21_Witness ==
    /\ pc = "returned"
    /\ Len(inputRows) = 1
    /\ errors[1] # <<>> /\ Last(errors[1]).message = ""
    /\ returned[1][1].status = "Failure"
    /\ returned[1][1].error = "Unknown processing error for this topic"

\* ---- the HTTP server
KeyConfigured ==
    /\ server = "ready"
    /\ HasApiKey(fastifyConfig)
    /\ Len(fastifyConfig.API_KEY) >= MinKeyLength

HasHeader(request) == HeaderName \in DOMAIN request.headers

StatusOf(x) == x.reply[1].statusCode

RejectedWith(x, statusCode) ==
    x.hook = "rejected" /\ x.reply # <<>> /\ StatusOf(x) = statusCode

\* The path of a URL: the URL without its query string.
PathOf(url) == SelectSeq(url, LAMBDA piece : piece # Query)

CalledFor(e) == \E c \in DOMAIN processMindMapsCalls : processMindMapsCalls[c].exchange = e

RequestedInputPath(request) ==
    IF "inputCsvPath" \in DOMAIN request.body /\ request.body.inputCsvPath # ""
        THEN request.body.inputCsvPath ELSE DefaultInputCsvPath

\* C23: POST /mindmaps/generate, once past the key check: when the input
\* file does not exist the reply is 400 with an error that names the path
\* and processMindMaps is not called for the request; when processMindMaps
\* throws the reply is 500; when it returns the reply is 200 and carries one
\* result per outcome of the report, same topic and status, in order.
C23_GenerateReplies ==
    \A e \in DOMAIN exchanges :
        LET x == exchanges[e]
        IN  /\ x.exists = <<FALSE>> =>
                /\ x.reply = <<Reply(400,
                        [error |-> "Input CSV file not found: " \o RequestedInputPath(x.request)])>>
                /\ ~CalledFor(e)
            /\ (x.settled # <<>> /\ x.settled[1].kind = "rejected") =>
                /\ CalledFor(e)
                /\ x.reply # <<>> /\ StatusOf(x) = 500
            /\ (x.settled # <<>> /\ x.settled[1].kind = "resolved") =>
                /\ CalledFor(e)
                /\ x.reply # <<>> /\ StatusOf(x) = 200
                /\ LET report == x.settled[1].value
                       sent == x.reply[1].payload.results
                   IN  /\ Len(sent) = Len(report)
                       /\ \A k \in DOMAIN report :
                            /\ sent[k].topic = report[k].topic
                            /\ sent[k].status = report[k].status
                            /\ "error" \in DOMAIN report[k] =>
                                    "error" \in DOMAIN sent[k] /\ sent[k].error = report[k].error

\* A request naming a custom input file that does not exist has been
\* answered 400.
C23_Witness ==
    \E e \in DOMAIN exchanges :
        /\ exchanges[e].request.body = [inputCsvPath |-> CustomInputCsvPath]
        /\ exchanges[e].exists = <<FALSE>>
        /\ exchanges[e].reply # <<>>
        /\ StatusOf(exchanges[e]) = 400

\* ---- the generation adapter
HasSettled == generation.state = "settled"

ApiGaveContent ==
    HasSettled /\ generation.api.kind = "resolved" /\ generation.api.value # <<>>

\* C24: a generateMindMap call ends with a document that passes the
\* document check, with an ExternalAPIError, or with the ValidationError of
\* errors/error-types, and with nothing else; the error is an
\* ExternalAPIError exactly when the API call failed, timed out or gave no
\* content, and a ValidationError exactly when content came whose JSON could
\* not be extracted or has not the raw document shape.
C24_DocumentOrTypedError ==
    HasSettled =>
        /\ \/ generation.result.kind = "resolved" /\ ValidateMindMap(generation.result.value)
           \/ /\ generation.result.kind = "rejected"
              /\ generation.result.error.class \in {"ExternalAPIError", "errors/ValidationError"}
        /\ ~ApiGaveContent <=>
                /\ generation.result.kind = "rejected"
                /\ generation.result.error.class = "ExternalAPIError"
        /\ (ApiGaveContent /\ \A k \in DOMAIN generation.checks : ~generation.checks[k].valid) <=>
                /\ generation.result.kind = "rejected"
                /\ generation.result.error.class = "errors/ValidationError"

\* The API answered with JSON that is no raw document and the call ended
\* with a ValidationError.
C24_Witness ==
    /\ ApiGaveContent
    /\ generation.api.value[1].format = "json"
    /\ generation.api.value[1].value = JObject([root |-> JObject([text |-> JNumber(7)])])
    /\ generation.result = Rejected(AppValidationError(
            "Failed to parse extracted JSON from OpenAI response"))

\* The raw document the translation started from: the one the last
\* validateRawMindMapData call accepted.
RawDocument == Last(generation.checks).data

RawChildren(raw) ==
    IF "children" \in DOMAIN raw.props THEN raw.props.children.items ELSE <<>>

NodeChildren(node) == IF "children" \in DOMAIN node THEN node.children ELSE <<>>

RECURSIVE Mirrors(_, _)
Mirrors(node, raw) ==
    /\ node.text = raw.props.text.value
    /\ Len(NodeChildren(node)) = Len(RawChildren(raw))
    /\ \A k \in DOMAIN NodeChildren(node) : Mirrors(NodeChildren(node)[k], RawChildren(raw)[k])

RECURSIVE IdsOf(_)
RECURSIVE IdsOfAll(_)
IdsOfAll(nodes) == IF nodes = <<>> THEN <<>> ELSE IdsOf(Head(nodes)) \o IdsOfAll(Tail(nodes))
IdsOf(node) == <<node.id>> \o IdsOfAll(NodeChildren(node))

AllDistinct(ids) == Cardinality(Range(ids)) = Len(ids)

\* C27: the tree of a returned document mirrors the validated raw tree
\* (same text at every place, as many children in the same order, at every
\* depth), and the ids of the document and of all its nodes, root included,
\* are pairwise distinct.
C27_TranslationMirrors ==
    (HasSettled /\ generation.result.kind = "resolved") =>
        LET doc == generation.result.value
        IN  /\ Mirrors(doc.root, RawDocument.props.root)
            /\ AllDistinct(<<doc.id>> \o IdsOf(doc.root))

\* A document with two children below the root, the second with two
\* children of its own, has been returned.
C27_Witness ==
    /\ HasSettled
    /\ generation.result.kind = "resolved"
    /\ LET root == generation.result.value.root
       IN  /\ Len(NodeChildren(root)) = 2
           /\ Len(NodeChildren(root.children[2])) = 2
           /\ Len(IdsOf(root)) = 5

RECURSIVE WellShaped(_)
WellShaped(node) ==
    /\ node.type = "object"
    /\ "text" \in DOMAIN node.props
    /\ node.props.text.type = "string"
    /\ "children" \in DOMAIN node.props =>
            /\ node.props.children.type = "array"
            /\ \A k \in DOMAIN node.props.children.items :
                    WellShaped(node.props.children.items[k])

\* C28: every validateRawMindMapData call returns (it raises nothing), and
\* it returns true exactly when data.root is an object with a string text
\* whose children, where present, are an array of entries of the same shape,
\* at every depth.
C28_RawShape ==
    HasSettled =>
        \A k \in DOMAIN generation.checks :
            LET check == generation.checks[k]
            IN  check.valid <=>
                    /\ check.data.type = "object"
                    /\ "root" \in DOMAIN check.data.props
                    /\ WellShaped(check.data.props.root)

\* A document whose only flaw is an entry two levels below the root has
\* been refused.
C28_Witness ==
    /\ HasSettled
    /\ generation.checks # <<>>
    /\ generation.checks[1].data =
            JObject([root |-> JObject([text |-> JString("r"), children |-> JArray(<<
                JObject([text |-> JString("c"), children |-> JArray(<<
                    JObject([text |-> JString("g")]),
                    JObject([label |-> JString("g")]) >>)]) >>)])])
    /\ ~generation.checks[1].valid

\* ---- the timeout of an attempt
AttemptInFlight(i) == i \in Rows /\ rowState[i] = "generating"

EndedOnTimeout(i) ==
    /\ rowState[i] = "done"
    /\ errors[i] # <<>>
    /\ Last(errors[i]) = TimedOut.error
    /\ mindMap[i] = <<>>

\* A timed-out attempt is one failed attempt: every failed attempt left one
\* error, a row waits for its next attempt only with budget left, and a row
\* that ended on a timeout had used all of its budget.
TimeoutCountsAndRetries ==
    \A i \in Rows :
        /\ rowState[i] = "backoff" =>
                Len(errors[i]) = attemptNumber[i] /\ attemptNumber[i] <= retryOptions.retries
        /\ EndedOnTimeout(i) =>
                Len(errors[i]) = attemptNumber[i] /\ attemptNumber[i] = retryOptions.retries + 1

\* C25: an attempt in flight always ends (the timeout of the request bounds
\* it), so it does not hold its slot for ever, and an attempt that timed out
\* is one failed attempt, retried while the budget lasts.
C25_AttemptIsBounded ==
    /\ []TimeoutCountsAndRetries
    /\ \A i \in 1..MaxRows : AttemptInFlight(i) ~> ~AttemptInFlight(i)

\* A row whose first attempt timed out is waiting for its second attempt.
C25_Witness ==
    \E i \in Rows :
        /\ rowState[i] = "backoff"
        /\ attemptNumber[i] = 1
        /\ errors[i] = <<TimedOut.error>>

\* ---- the CSV writer and the row check
Writes == {c \in DOMAIN csvCalls : csvCalls[c].op = "writeOutputCSV"}
RowChecks == {c \in DOMAIN csvCalls : csvCalls[c].op = "validateCSVInputRowOrThrow"}

\* C26 as stated: a write that succeeded left a file with the header; its
\* body is empty when no result was given, and otherwise holds exactly one
\* row (topic, status) per result, in the order of the results.
C26_Original ==
    \A c \in Writes :
        csvCalls[c].state = "resolved" =>
            LET file == csvCalls[c].file[1]
                rows == csvCalls[c].results
            IN  /\ file.header = <<"topic", "status">>
                /\ Len(file.body) = Len(rows)
                /\ \A k \in DOMAIN rows :
                        /\ file.body[k].topic = rows[k].topic
                        /\ file.body[k].status = rows[k].status

\* What holds of the writer: one row per result, in order, when there is at
\* least one result.
C26_RowsInOrder ==
    \A c \in Writes :
        (csvCalls[c].state = "resolved" /\ Len(csvCalls[c].results) >= 1) =>
            LET file == csvCalls[c].file[1]
                rows == csvCalls[c].results
            IN  /\ file.header = <<"topic", "status">>
                /\ Len(file.body) = Len(rows)
                /\ \A k \in DOMAIN rows :
                        /\ file.body[k].topic = rows[k].topic
                        /\ file.body[k].status = rows[k].status

IsNonEmptyString(v) == v.type = "string" /\ Len(v.value) >= 1

\* C29 as stated: a row is accepted only if subject and topic are non-empty
\* strings and it has no other field; validateCSVInputRowOrThrow throws a
\* ValidationError exactly when the row is not accepted, and an accepted row
\* is left as it was.
C29_Original ==
    \A c \in RowChecks :
        LET call == csvCalls[c]
        IN  /\ call.valid =>
                /\ call.before.type = "object"
                /\ DOMAIN call.before.props = {"subject", "topic"}
                /\ IsNonEmptyString(call.before.props.subject)
                /\ IsNonEmptyString(call.before.props.topic)
            /\ call.thrown # <<>> <=> ~call.valid
            /\ call.thrown # <<>> =>
                    call.thrown[1].class = "validation.service/ValidationError"
            /\ call.valid => call.after = call.before

\* What holds of the row check: it throws the ValidationError of
\* validation.service exactly when the row is not accepted, and a row of
\* exactly two non-empty strings is accepted and left as it was.
C29_ThrowsWhenInvalid ==
    \A c \in RowChecks :
        LET call == csvCalls[c]
        IN  /\ call.thrown # <<>> <=> ~call.valid
            /\ call.thrown # <<>> =>
                    call.thrown[1].class = "validation.service/ValidationError"
            /\ ( /\ call.before.type = "object"
                 /\ DOMAIN call.before.props = {"subject", "topic"}
                 /\ IsNonEmptyString(call.before.props.subject)
                 /\ IsNonEmptyString(call.before.props.topic) ) =>
                    call.valid /\ call.after = call.before

\* ---- retry options given by the caller
SuppressedClass(error) == error.class = "validation.service/ValidationError"

\* C30 as stated: whatever retryOptions the constructor was given, the
\* attempt that failed with a validation-class error is the last attempt of
\* its row.
C30_Original ==
    \A i \in Rows : \A k \in DOMAIN errors[i] :
        SuppressedClass(errors[i][k]) => attemptNumber[i] = k /\ Done(i)

\* What holds: the attempt is the last one when the options carry the
\* shouldRetry of the constructor's default.
C30_SuppressedWithShouldRetry ==
    \A i \in Rows : \A k \in DOMAIN errors[i] :
        (SuppressedClass(errors[i][k]) /\ "shouldRetry" \in DOMAIN retryOptions)
            => attemptNumber[i] = k /\ Done(i)

\* ---- concurrent runs
PathsWritten(r) == {runs[r].written[k].path : k \in DOMAIN runs[r].written}

\* C31 as stated: two runs under way with different output paths never write
\* to the same file, checkpoint writes and final writes alike.
C31_Original ==
    \A r1, r2 \in DOMAIN runs :
        (r1 # r2 /\ runs[r1].outputCsvPath # runs[r2].outputCsvPath)
            => PathsWritten(r1) \cap PathsWritten(r2) = {}

\* What holds: the final writes of two runs with different output paths go to
\* different files.
C31_FinalWritesApart ==
    \A r1, r2 \in DOMAIN runs :
        (r1 # r2 /\ runs[r1].outputCsvPath # runs[r2].outputCsvPath)
            => \A p \in PathsWritten(r1) \cap PathsWritten(r2) :
                    /\ p # FinalFilePath(runs[r1].outputCsvPath)
                    /\ p # FinalFilePath(runs[r2].outputCsvPath)

\* ---- order of chunks, attempts and rows
\* the (0-based) chunk row i belongs to
ChunkOf(i) == (i - 1) \div batchSize

\* limit(() => this.processRow(row)) has been called for row i
Submitted(i) == rowState[i] # "idle"

\* C32: a row of a chunk is handed to the limiter, and so starts, only when
\* every row of the chunks before has its outcome and the checkpoint write
\* of each of those chunks has ended, well or not; while a checkpoint write
\* is pending no row of a later chunk has been handed over.
C32_ChunksSequential ==
    /\ \A i \in Rows : Submitted(i) =>
          /\ \A j \in Rows : ChunkOf(j) < ChunkOf(i) => Done(j)
          /\ Len(writeCalls) >= ChunkOf(i)
          /\ ChunkOf(i) <= index
    /\ pc = "partialWrite" =>
          \A i \in Rows : ChunkOf(i) > index => ~Submitted(i)

\* the row of the second chunk is in flight, alone although a second slot
\* is free, after the first chunk's row failed and its checkpoint write failed
C32_Witness ==
    /\ maxConcurrent = 2
    /\ Cardinality(InFlight) = 1
    /\ \E i \in InFlight : ChunkOf(i) = 1
    /\ \E j \in Rows : ChunkOf(j) = 0 /\ Done(j) /\ Outcome(j).status = "Failure"
    /\ Len(writeCalls) = 1 /\ ~writeCalls[1].ok

\* generateMindMap calls of row i made and not yet settled: the attempts
\* started, less those that rejected, less the one that resolved
Outstanding(i) ==
    attemptNumber[i] - Len(errors[i]) - (IF mindMap[i] # <<>> THEN 1 ELSE 0)

RECURSIVE SumOutstanding(_)
SumOutstanding(n) == IF n = 0 THEN 0 ELSE Outstanding(n) + SumOutstanding(n - 1)

\* C33: a row has at most one generateMindMap call outstanding, and has one
\* exactly while an attempt is in flight; in backoff every attempt made so
\* far has failed, so attempt j+1 starts only after attempt j failed and the
\* delay elapsed; over all rows at most maxConcurrent calls are outstanding.
C33_AttemptsSequential ==
    /\ \A i \in Rows :
          /\ Outstanding(i) \in {0, 1}
          /\ Outstanding(i) = 1 <=> rowState[i] = "generating"
          /\ rowState[i] = "backoff" => Len(errors[i]) = attemptNumber[i]
          /\ rowState[i] = "generating" => Len(errors[i]) = attemptNumber[i] - 1
    /\ SumOutstanding(Len(inputRows)) <= maxConcurrent

\* two rows each with a call outstanding, one of them on its second attempt
C33_Witness ==
    /\ maxConcurrent = 2
    /\ SumOutstanding(Len(inputRows)) = 2
    /\ \E i \in Rows : attemptNumber[i] = 2 /\ Len(errors[i]) = 1 /\ rowState[i] = "generating"

\* rows that hold a slot of the limiter: resumed and not yet finished
HoldsSlot == {i \in Rows : rowState[i] \in {"dequeued", "generating", "backoff", "storing"}}

\* C34: with maxConcurrent = 1 at most one row holds the slot, and a row
\* has the slot or has finished only if every row before it in the input
\* has its outcome.
C34_OneAtATime ==
    maxConcurrent = 1 =>
        /\ Cardinality(HoldsSlot) <= 1
        /\ \A i \in Rows : (i \in HoldsSlot \/ Done(i)) =>
              \A j \in Rows : j < i => Done(j)

\* two rows of one chunk, one slot: the second row is in flight, the first
\* has its outcome
C34_Witness ==
    /\ maxConcurrent = 1
    /\ batchSize >= 2
    /\ Len(inputRows) >= 2
    /\ Done(1) /\ rowState[2] = "generating"

\* ---- termination
Completed == pc \in {"returned", "thrown"}

Queued(i) == i \in Rows /\ rowState[i] = "queued"

NoneQueued == \A i \in 1..MaxRows : ~Queued(i)

\* C35: when every pending call settles, processMindMaps completes, by
\* returning or by throwing; the limiter's queue empties again and again, so
\* every row waiting in it gets a slot; the slots taken are those of the rows
\* resumed and not yet finished, so a row that finished, with Success or
\* Failure, has given its slot back.
C35_Completes ==
    /\ [](activeCount = Cardinality(HoldsSlot))
    /\ []<>NoneQueued
    /\ <>Completed

\* a run of two rows through one slot has returned, one row a Success and
\* the other a Failure
C35_Witness ==
    /\ pc = "returned"
    /\ maxConcurrent = 1 /\ batchSize = 2 /\ Len(inputRows) = 2
    /\ \E i, j \in Rows : Outcome(i).status = "Success" /\ Outcome(j).status = "Failure"

\* ---- paging through the local store
\* how often doc has been delivered so far
TimesDelivered(doc) == Cardinality({k \in DOMAIN Delivered : Delivered[k] = doc})

\* a pagination sequence on local storage, limit >= 1, during which store
\* calls may complete and none fails
LocalSequenceWithStores ==
    /\ backend = "local"
    /\ pages # <<>>
    /\ pages[1].limit >= 1
    /\ \A c \in DOMAIN calls : calls[c].state # "rejected"

SequenceEnded == Last(pages).response.nextPageToken = NoToken

\* C36 as stated: a document stored before the first request of the sequence
\* is never delivered twice, and once the sequence has ended it has been
\* delivered, also when documents were stored between the requests.
C36_Original ==
    LocalSequenceWithStores =>
        \A k \in DOMAIN Listed :
            CanBeRead(Listed[k]) =>
                /\ TimesDelivered(Listed[k].content.value) <= 1
                /\ SequenceEnded => TimesDelivered(Listed[k].content.value) = 1

\* What holds: a document stored before the first request is delivered at
\* least once by the time the sequence ends.
C36_NotSkipped ==
    LocalSequenceWithStores =>
        \A k \in DOMAIN Listed :
            (CanBeRead(Listed[k]) /\ SequenceEnded) =>
                TimesDelivered(Listed[k].content.value) >= 1

\* the offset a request asks for
RequestOffset(page) == OffsetOf(page.pageToken)

\* C37 as stated: the nextPageToken of a response denotes an offset strictly
\* greater than the offset of the request it answers, for every limit >= 0.
C37_Original ==
    \A k \in DOMAIN pages :
        pages[k].response.nextPageToken # NoToken =>
            OffsetOf(pages[k].response.nextPageToken) > RequestOffset(pages[k])

\* What holds: the offset grows for every limit >= 1.
C37_GrowsForPositiveLimit ==
    \A k \in DOMAIN pages :
        (pages[k].limit >= 1 /\ pages[k].response.nextPageToken # NoToken) =>
            OffsetOf(pages[k].response.nextPageToken) > RequestOffset(pages[k])

\* the .json files of the listing a request ran against
JsonFilesOf(page) == SelectSeq(page.dir, IsJsonFile)

\* how many files the page of a request covers
PageLength(page) ==
    LET left == Len(JsonFilesOf(page)) - RequestOffset(page)
    IN  IF left <= 0 THEN 0 ELSE Min(page.limit, left)

\* C38: a response carries a nextPageToken exactly when files remain beyond
\* its page (offset + page length < total); none for a page that ends at the
\* total, for an offset beyond the total and for a limit larger than the
\* total; total is the number of .json files stored, unreadable ones included.
C38_TokenIffFilesRemain ==
    \A k \in DOMAIN pages :
        LET page == pages[k]
            total == Len(JsonFilesOf(page))
            offset == RequestOffset(page)
        IN  /\ page.response.total = <<total>>
            /\ (page.response.nextPageToken # NoToken)
                    <=> (offset + PageLength(page) < total)
            /\ page.response.nextPageToken # NoToken =>
                    page.response.nextPageToken = <<StringOf(offset + PageLength(page))>>
            /\ offset + page.limit = total => page.response.nextPageToken = NoToken
            /\ offset > total => page.response.nextPageToken = NoToken
            /\ (offset = 0 /\ page.limit > total) => page.response.nextPageToken = NoToken

\* a request whose page ends exactly at the total, the store holding a file
\* that cannot be read: the total counts it and there is no token
C38_Witness ==
    \E k \in DOMAIN pages :
        /\ RequestOffset(pages[k]) = 1
        /\ pages[k].limit = 1
        /\ pages[k].response.total = <<2>>
        /\ \E f \in Range(pages[k].dir) : f.content = Unreadable
        /\ pages[k].response.mindMaps = <<>>
        /\ pages[k].response.nextPageToken = NoToken

\* ---- the key check switched off
NoUsableKey(record) == ~HasApiKey(record) \/ Len(record.API_KEY) < MinKeyLength

NoneRejected == \A e \in DOMAIN exchanges : exchanges[e].hook # "rejected"

\* C39 as stated: with no API key in the environment, or one shorter than 8
\* characters, the server serves: it has not failed to start and the key
\* check rejects no request, whatever its path and its x-api-key header.
C39_Original ==
    NoUsableKey(env) => server # "failed" /\ NoneRejected

\* What holds: without any API key the server starts and no request is
\* rejected; validateApiKey itself returns for every header when the config
\* it reads has no key or a short one.
C39_NoKeyNoCheck ==
    /\ ~HasApiKey(env) => server # "failed" /\ NoneRejected
    /\ \A headers \in HeaderSets :
          /\ ValidateApiKey([files |-> Files], headers) = Returns
          /\ ValidateApiKey([API_KEY |-> ShortKey, files |-> Files], headers) = Returns
====
